---------------------------- MODULE Spec2Model ----------------------------
(***************************************************************************)
(* Employee portal: job sync cache (_sync_jobs_if_needed), the external    *)
(* job source (fetch_jobs), the route handlers that rescore jobs, and the  *)
(* two match scorers (utils/helpers.py and utils/match_scoring.py).        *)
(*                                                                         *)
(* Conventions.  A Python str is a sequence of one-character strings.      *)
(* A Python float is the exact rational it denotes, kept as <<num, den>>;  *)
(* a stored score is an integer number of hundredths.  A datetime is an    *)
(* integer number of seconds.  An Optional value is <<>> for None and <<v>>*)
(* otherwise, except an Optional[Profile], whose None is the record None.  *)
(***************************************************************************)
EXTENDS Integers, Sequences, FiniteSets, TLC

\* ------------------------------------------------------------------ text

Range(s) == {s[i] : i \in DOMAIN s}

Max(S) == CHOOSE x \in S : \A y \in S : y <= x

UpperCase ==
    <<"A", "B", "C", "D", "E", "F", "G", "H", "I", "J", "K", "L", "M",
      "N", "O", "P", "Q", "R", "S", "T", "U", "V", "W", "X", "Y", "Z">>

LowerCase ==
    <<"a", "b", "c", "d", "e", "f", "g", "h", "i", "j", "k", "l", "m",
      "n", "o", "p", "q", "r", "s", "t", "u", "v", "w", "x", "y", "z">>

Whitespace == {" ", "\t", "\n"}

\* the lowercase letter of each uppercase letter
UpperToLower ==
    [c \in Range(UpperCase) |-> LowerCase[CHOOSE i \in DOMAIN UpperCase : UpperCase[i] = c]]

\* str.lower() on one character
lower_char(c) == IF c \in DOMAIN UpperToLower THEN UpperToLower[c] ELSE c

\* str.lower()
str_lower(s) == [i \in DOMAIN s |-> lower_char(s[i])]

RECURSIVE str_lstrip(_)
str_lstrip(s) ==
    IF s = <<>> \/ s[1] \notin Whitespace THEN s ELSE str_lstrip(Tail(s))

RECURSIVE str_rstrip(_)
str_rstrip(s) ==
    IF s = <<>> \/ s[Len(s)] \notin Whitespace THEN s
    ELSE str_rstrip(SubSeq(s, 1, Len(s) - 1))

\* str.strip()
str_strip(s) == str_rstrip(str_lstrip(s))

\* `a in b` on two str
str_in(a, b) ==
    \E i \in 0..(Len(b) - Len(a)) : SubSeq(b, i + 1, i + Len(a)) = a

\* s split at the characters of sep: the list of segments, empty ones kept
RECURSIVE split_on(_, _, _, _)
split_on(s, sep, cur, acc) ==
    IF s = <<>> THEN Append(acc, cur)
    ELSE IF s[1] \in sep THEN split_on(Tail(s), sep, <<>>, Append(acc, cur))
    ELSE split_on(Tail(s), sep, Append(cur, s[1]), acc)

\* str.split(): the whitespace-delimited words, no empty ones
str_split(s) == SelectSeq(split_on(s, Whitespace, <<>>, <<>>), LAMBDA w : w # <<>>)


\* ------------------------------------------------------------------ floats as rationals

RECURSIVE GCD(_, _)
GCD(a, b) == IF b = 0 THEN a ELSE GCD(b, a % b)

Abs(x) == IF x < 0 THEN -x ELSE x

Frac(n, d) ==
    LET g == GCD(Abs(n), d) IN IF n = 0 THEN <<0, 1>> ELSE <<n \div g, d \div g>>

FAdd(a, b) == Frac(a[1] * b[2] + b[1] * a[2], a[2] * b[2])

FMul(a, b) == Frac(a[1] * b[1], a[2] * b[2])

FLe(a, b) == a[1] * b[2] <= b[1] * a[2]

FMin(a, b) == IF FLe(a, b) THEN a ELSE b

FMax(a, b) == IF FLe(a, b) THEN b ELSE a

\* round(x * k) to the nearest integer, ties to even: round(x, 2) is RoundScaled(x, 100)
\* hundredths, round(x, 1) is RoundScaled(x, 10) tenths
RoundScaled(x, k) ==
    LET n == x[1] * k
        q == n \div x[2]
        r == n % x[2]
    IN  IF 2 * r < x[2] THEN q
        ELSE IF 2 * r > x[2] THEN q + 1
        ELSE IF q % 2 = 0 THEN q ELSE q + 1

\* String literals of helpers.py JOB_ROLE_REQUIREMENTS (a string is a sequence of
\* characters).
HelperStr ==
    [ Chef |-> <<"C", "h", "e", "f">>,
      Cashier |-> <<"C", "a", "s", "h", "i", "e", "r">>,
      Driver |-> <<"D", "r", "i", "v", "e", "r">>,
      Marketing_Specialist |-> <<"M", "a", "r", "k", "e", "t", "i", "n", "g", " ", "S",
            "p", "e", "c", "i", "a", "l", "i", "s", "t">>,
      Food_Safety_Inspector |-> <<"F", "o", "o", "d", " ", "S", "a", "f", "e", "t", "y",
            " ", "I", "n", "s", "p", "e", "c", "t", "o", "r">>,
      Fire_Safety_Inspector |-> <<"F", "i", "r", "e", " ", "S", "a", "f", "e", "t", "y",
            " ", "I", "n", "s", "p", "e", "c", "t", "o", "r">>,
      cooking |-> <<"c", "o", "o", "k", "i", "n", "g">>,
      food_safety |-> <<"f", "o", "o", "d", " ", "s", "a", "f", "e", "t", "y">>,
      inventory_management |-> <<"i", "n", "v", "e", "n", "t", "o", "r", "y", " ", "m",
            "a", "n", "a", "g", "e", "m", "e", "n", "t">>,
      customer_service |-> <<"c", "u", "s", "t", "o", "m", "e", "r", " ", "s", "e", "r",
            "v", "i", "c", "e">>,
      cash_handling |-> <<"c", "a", "s", "h", " ", "h", "a", "n", "d", "l", "i", "n", "g">>,
      driving |-> <<"d", "r", "i", "v", "i", "n", "g">>,
      marketing |-> <<"m", "a", "r", "k", "e", "t", "i", "n", "g">>,
      gas_leak_tests |-> <<"g", "a", "s", " ", "l", "e", "a", "k", " ", "t", "e", "s", "t",
            "s">>,
      city_code_adherence |-> <<"c", "i", "t", "y", " ", "c", "o", "d", "e", " ", "a", "d",
            "h", "e", "r", "e", "n", "c", "e">>,
      food_handler_certification |-> <<"f", "o", "o", "d", " ", "h", "a", "n", "d", "l",
            "e", "r", " ", "c", "e", "r", "t", "i", "f", "i", "c", "a", "t", "i", "o", "n">>,
      driver_s_license |-> <<"d", "r", "i", "v", "e", "r", "'", "s", " ", "l", "i", "c",
            "e", "n", "s", "e">>,
      marketing_certification |-> <<"m", "a", "r", "k", "e", "t", "i", "n", "g", " ", "c",
            "e", "r", "t", "i", "f", "i", "c", "a", "t", "i", "o", "n">>,
      food_safety_certification |-> <<"f", "o", "o", "d", " ", "s", "a", "f", "e", "t",
            "y", " ", "c", "e", "r", "t", "i", "f", "i", "c", "a", "t", "i", "o", "n">>,
      cgli_inspector |-> <<"c", "g", "l", "i", " ", "i", "n", "s", "p", "e", "c", "t", "o",
            "r">> ]

\* String literals of employer_api_service.py MOCK_JOBS.
MockStr ==
    [ Cooking |-> <<"C", "o", "o", "k", "i", "n", "g">>,
      Food_Safety |-> <<"F", "o", "o", "d", " ", "S", "a", "f", "e", "t", "y">>,
      Inventory_Management |-> <<"I", "n", "v", "e", "n", "t", "o", "r", "y", " ", "M",
            "a", "n", "a", "g", "e", "m", "e", "n", "t">>,
      Customer_Service |-> <<"C", "u", "s", "t", "o", "m", "e", "r", " ", "S", "e", "r",
            "v", "i", "c", "e">>,
      Cash_Handling |-> <<"C", "a", "s", "h", " ", "H", "a", "n", "d", "l", "i", "n", "g">>,
      Driving |-> <<"D", "r", "i", "v", "i", "n", "g">>,
      Marketing |-> <<"M", "a", "r", "k", "e", "t", "i", "n", "g">>,
      Gas_leak_tests |-> <<"G", "a", "s", " ", "l", "e", "a", "k", " ", "t", "e", "s", "t",
            "s">>,
      City_code_adherence |-> <<"C", "i", "t", "y", " ", "c", "o", "d", "e", " ", "a", "d",
            "h", "e", "r", "e", "n", "c", "e">>,
      Food_Handler_Certification |-> <<"F", "o", "o", "d", " ", "H", "a", "n", "d", "l",
            "e", "r", " ", "C", "e", "r", "t", "i", "f", "i", "c", "a", "t", "i", "o", "n">>,
      Driver_s_License |-> <<"D", "r", "i", "v", "e", "r", "'", "s", " ", "L", "i", "c",
            "e", "n", "s", "e">>,
      Marketing_Certification |-> <<"M", "a", "r", "k", "e", "t", "i", "n", "g", " ", "C",
            "e", "r", "t", "i", "f", "i", "c", "a", "t", "i", "o", "n">>,
      Food_Safety_Certification |-> <<"F", "o", "o", "d", " ", "S", "a", "f", "e", "t",
            "y", " ", "C", "e", "r", "t", "i", "f", "i", "c", "a", "t", "i", "o", "n">>,
      CGLI_Inspector |-> <<"C", "G", "L", "I", " ", "I", "n", "s", "p", "e", "c", "t", "o",
            "r">>,
      d_1001 |-> <<"S", "u", "p", "p", "o", "r", "t", " ", "l", "e", "a", "d", " ", "c",
            "h", "e", "f", " ", "w", "i", "t", "h", " ", "d", "a", "i", "l", "y", " ", "k",
            "i", "t", "c", "h", "e", "n", " ", "o", "p", "e", "r", "a", "t", "i", "o", "n",
            "s", " ", "a", "n", "d", " ", "m", "e", "n", "u", " ", "e", "x", "e", "c", "u",
            "t", "i", "o", "n", ".">>,
      d_1002 |-> <<"A", "s", "s", "i", "s", "t", " ", "g", "u", "e", "s", "t", "s", " ",
            "w", "i", "t", "h", " ", "p", "u", "r", "c", "h", "a", "s", "e", "s", ",", " ",
            "m", "a", "n", "a", "g", "e", " ", "t", "h", "e", " ", "r", "e", "g", "i", "s",
            "t", "e", "r", ",", " ", "a", "n", "d", " ", "m", "a", "i", "n", "t", "a", "i",
            "n", " ", "c", "u", "s", "t", "o", "m", "e", "r", " ", "s", "a", "t", "i", "s",
            "f", "a", "c", "t", "i", "o", "n", ".">>,
      d_1003 |-> <<"D", "e", "l", "i", "v", "e", "r", " ", "g", "o", "u", "r", "m", "e",
            "t", " ", "m", "e", "a", "l", "s", " ", "a", "c", "r", "o", "s", "s", " ", "t",
            "h", "e", " ", "m", "e", "t", "r", "o", " ", "a", "r", "e", "a", " ", "e", "n",
            "s", "u", "r", "i", "n", "g", " ", "s", "a", "f", "e", "t", "y", " ", "a", "n",
            "d", " ", "q", "u", "a", "l", "i", "t", "y", ".">>,
      d_1004 |-> <<"D", "e", "v", "e", "l", "o", "p", " ", "c", "a", "m", "p", "a", "i",
            "g", "n", "s", " ", "a", "n", "d", " ", "m", "a", "n", "a", "g", "e", " ", "b",
            "r", "a", "n", "d", " ", "e", "n", "g", "a", "g", "e", "m", "e", "n", "t", " ",
            "i", "n", "i", "t", "i", "a", "t", "i", "v", "e", "s", ".">>,
      d_1005 |-> <<"I", "n", "s", "p", "e", "c", "t", " ", "p", "a", "r", "t", "n", "e",
            "r", " ", "f", "a", "c", "i", "l", "i", "t", "i", "e", "s", " ", "t", "o", " ",
            "m", "a", "i", "n", "t", "a", "i", "n", " ", "c", "o", "m", "p", "l", "i", "a",
            "n", "c", "e", " ", "w", "i", "t", "h", " ", "s", "a", "f", "e", "t", "y", " ",
            "s", "t", "a", "n", "d", "a", "r", "d", "s", ".">>,
      d_1006 |-> <<"P", "e", "r", "f", "o", "r", "m", " ", "s", "a", "f", "e", "t", "y",
            " ", "i", "n", "s", "p", "e", "c", "t", "i", "o", "n", "s", " ", "a", "n", "d",
            " ", "e", "n", "s", "u", "r", "e", " ", "a", "d", "h", "e", "r", "e", "n", "c",
            "e", " ", "t", "o", " ", "m", "u", "n", "i", "c", "i", "p", "a", "l", " ", "c",
            "o", "d", "e", "s", ".">> ]

\* ------------------------------------------------------------------ inputs

\* Strings of the profiles, jobs and payloads the specifications draw from.
InputStr ==
    [ cook |-> <<"c", "o", "o", "k">>,
      pad_Food_Safety |-> <<" ", "F", "o", "o", "d", " ", "S", "a", "f", "e", "t", "y", " ">>,
      safety_food_rules |-> <<"s", "a", "f", "e", "t", "y", " ", "f", "o", "o", "d", " ",
            "r", "u", "l", "e", "s">>,
      Line_cook |-> <<"L", "i", "n", "e", " ", "c", "o", "o", "k">>,
      Sous_Chef |-> <<"S", "o", "u", "s", " ", "C", "h", "e", "f">>,
      Head_Cook |-> <<"H", "e", "a", "d", " ", "C", "o", "o", "k">>,
      chef_summary |-> <<"I", " ", "c", "o", "o", "k", " ", "d", "a", "i", "l", "y">>,
      chef_experience |-> <<"k", "i", "t", "c", "h", "e", "n", " ", "l", "e", "a", "d">>,
      menu_work |-> <<"m", "e", "n", "u", " ", "w", "o", "r", "k">>,
      d_A |-> <<"c", "o", "o", "k", " ", "d", "a", "i", "l", "y", " ", "m", "e", "n", "u">>,
      d_A2 |-> <<"l", "e", "a", "d", " ", "t", "h", "e", " ", "k", "i", "t", "c", "h", "e",
            "n">>,
      d_B |-> <<"d", "e", "l", "i", "v", "e", "r", " ", "m", "e", "a", "l", "s">>,
      d_stop |-> <<"t", "h", "e", " ", "a", "n", "d", " ", "o", "f">>,
      csv_skills |-> <<"C", "o", "o", "k", "i", "n", "g", ",", " ", "c", "o", "o", "k", "i", "n", "g", " ", ",">> \o
            <<",", "F", "o", "o", "d", " ", "S", "a", "f", "e", "t", "y">>,
      csv_repeat |-> <<"c", "o", "o", "k", "i", "n", "g", ",", "c", "o", "o", "k", "i", "n", "g">>,
      blank |-> <<" ", " ">>,
      food |-> <<"f", "o", "o", "d">>,
      safety_food |-> <<"s", "a", "f", "e", "t", "y", " ", "f", "o", "o", "d">>,
      wide_Cooking |-> <<" ", " ", "C", "o", "o", "k", "i", "n", "g", " ", " ">> ]

\* ------------------------------------------------------------------ utils/helpers.py

None == [py_none |-> TRUE]

JOB_ROLE_REQUIREMENTS ==
    (HelperStr.Chef :>
        [skills |-> {HelperStr.cooking, HelperStr.food_safety, HelperStr.inventory_management},
         certifications |-> {HelperStr.food_handler_certification}]) @@
    (HelperStr.Cashier :>
        [skills |-> {HelperStr.customer_service, HelperStr.cash_handling, HelperStr.food_safety},
         certifications |-> {HelperStr.food_handler_certification}]) @@
    (HelperStr.Driver :>
        [skills |-> {HelperStr.driving, HelperStr.customer_service, HelperStr.food_safety},
         certifications |-> {HelperStr.driver_s_license}]) @@
    (HelperStr.Marketing_Specialist :>
        [skills |-> {HelperStr.marketing, HelperStr.customer_service, HelperStr.food_safety},
         certifications |-> {HelperStr.marketing_certification}]) @@
    (HelperStr.Food_Safety_Inspector :>
        [skills |-> {HelperStr.food_safety, HelperStr.inventory_management},
         certifications |-> {HelperStr.food_safety_certification}]) @@
    (HelperStr.Fire_Safety_Inspector :>
        [skills |-> {HelperStr.gas_leak_tests, HelperStr.city_code_adherence},
         certifications |-> {HelperStr.cgli_inspector}])

\* Profile.skills_list, Profile.certifications_list: list(self.skills or [])
skills_list(profile) == profile.skills

certifications_list(profile) == profile.certifications

\* {item.strip().lower() for item in items if isinstance(item, str) and item.strip()}
_normalize_iterable(items) ==
    {str_lower(str_strip(items[i])) : i \in {k \in DOMAIN items : str_strip(items[k]) # <<>>}}

\* The scorer of helpers.py, the one the routes import: a 0..1 score, in hundredths.
helpers_calculate_match_score(profile, job) ==
    IF profile = None THEN 0
    ELSE
    LET profile_skills == _normalize_iterable(skills_list(profile))
        profile_certs == _normalize_iterable(certifications_list(profile))
        job_skills == _normalize_iterable(job.required_skills)
        job_certs == _normalize_iterable(job.required_certifications)
        skill_match == Cardinality(job_skills \cap profile_skills)
        cert_match == Cardinality(job_certs \cap profile_certs)
        total_requirements == Max({Cardinality(job_skills) + Cardinality(job_certs), 1})
        base_score == Frac(skill_match + cert_match, total_requirements)
        has_role == job.role \in DOMAIN JOB_ROLE_REQUIREMENTS
        role_requirements == JOB_ROLE_REQUIREMENTS[job.role]
        role_skill_match == Cardinality(role_requirements.skills \cap profile_skills)
        role_cert_match == Cardinality(role_requirements.certifications \cap profile_certs)
        role_total ==
            Max({Cardinality(role_requirements.skills)
                    + Cardinality(role_requirements.certifications), 1})
        role_score == Frac(role_skill_match + role_cert_match, role_total)
        blended == FAdd(FMul(base_score, <<6, 10>>), FMul(role_score, <<4, 10>>))
        final == IF has_role THEN blended ELSE base_score
    IN  IF job_skills = {} /\ job_certs = {} THEN 0
        ELSE RoundScaled(FMin(final, <<1, 1>>), 100)

\* helpers.update_job_match_score: job.match_score = calculate_match_score(profile, job)
update_job_match_score(job, profile) ==
    [job EXCEPT !.match_score = helpers_calculate_match_score(profile, job)]


\* ------------------------------------------------------------------ services/employer_api_service.py

\* datetime.isoformat(): the ISO-8601 string of a datetime
isoformat(t) == [iso |-> t]

\* MOCK_JOBS, built when the module is imported (imported_at is that utcnow())
MOCK_JOBS(imported_at) ==
    << [id |-> 1001, title |-> "Sous Chef", role |-> HelperStr.Chef,
        company |-> "Culinary Collective", location |-> "New York, NY",
        description |-> MockStr.d_1001,
        required_skills |-> <<MockStr.Cooking, MockStr.Food_Safety, MockStr.Inventory_Management>>,
        required_certifications |-> <<MockStr.Food_Handler_Certification>>,
        posted_at |-> [dt |-> imported_at - 2 * 86400]],
       [id |-> 1002, title |-> "Front Desk Cashier", role |-> HelperStr.Cashier,
        company |-> "Gourmet Market", location |-> "Chicago, IL",
        description |-> MockStr.d_1002,
        required_skills |-> <<MockStr.Customer_Service, MockStr.Cash_Handling, MockStr.Food_Safety>>,
        required_certifications |-> <<MockStr.Food_Handler_Certification>>,
        posted_at |-> [dt |-> imported_at - 5 * 86400]],
       [id |-> 1003, title |-> "Delivery Driver", role |-> HelperStr.Driver,
        company |-> "FastBite", location |-> "Los Angeles, CA",
        description |-> MockStr.d_1003,
        required_skills |-> <<MockStr.Driving, MockStr.Customer_Service, MockStr.Food_Safety>>,
        required_certifications |-> <<MockStr.Driver_s_License>>,
        posted_at |-> [dt |-> imported_at - 1 * 86400]],
       [id |-> 1004, title |-> "Regional Marketing Specialist", role |-> HelperStr.Marketing_Specialist,
        company |-> "TasteWave", location |-> "Austin, TX",
        description |-> MockStr.d_1004,
        required_skills |-> <<MockStr.Marketing, MockStr.Customer_Service, MockStr.Food_Safety>>,
        required_certifications |-> <<MockStr.Marketing_Certification>>,
        posted_at |-> [dt |-> imported_at - 3 * 86400]],
       [id |-> 1005, title |-> "Food Safety Inspector", role |-> HelperStr.Food_Safety_Inspector,
        company |-> "SafeServe Inc.", location |-> "Seattle, WA",
        description |-> MockStr.d_1005,
        required_skills |-> <<MockStr.Food_Safety, MockStr.Inventory_Management>>,
        required_certifications |-> <<MockStr.Food_Safety_Certification>>,
        posted_at |-> [dt |-> imported_at - 4 * 86400]],
       [id |-> 1006, title |-> "Fire Safety Inspector", role |-> HelperStr.Fire_Safety_Inspector,
        company |-> "SecureHeat", location |-> "Denver, CO",
        description |-> MockStr.d_1006,
        required_skills |-> <<MockStr.Gas_leak_tests, MockStr.City_code_adherence>>,
        required_certifications |-> <<MockStr.CGLI_Inspector>>,
        posted_at |-> [dt |-> imported_at - 6 * 86400]] >>

\* _fetch_mock_jobs: a copy of each mock job with posted_at as its ISO string
_fetch_mock_jobs(imported_at) ==
    LET mock == MOCK_JOBS(imported_at)
    IN  [i \in DOMAIN mock |-> [mock[i] EXCEPT !.posted_at = isoformat(mock[i].posted_at.dt)]]

\* An except clause that catches connection errors only.
RequestException_connection_only == {"ConnectionError"}

\* The subclasses of requests.exceptions.RequestException that requests.get and
\* raise_for_status raise.
RequestException == {"ConnectionError", "Timeout", "HTTPError"}

\* What requests.get(...) followed by raise_for_status() and response.json() does for
\* a transport outcome: the exception raised, or "none" and the decoded body.
requests_get(transport) ==
    IF transport.kind # "response" THEN [raised |-> transport.kind, value |-> <<>>]
    ELSE IF transport.status >= 400 /\ transport.status < 600
    THEN [raised |-> "HTTPError", value |-> <<>>]
    ELSE [raised |-> "none", value |-> transport.body]

\* fetch_jobs(): [raised, value]; raised is "none" when it returns
fetch_jobs(config, transport, imported_at) ==
    IF ~config.enabled \/ config.base_url = ""
    THEN [raised |-> "none", value |-> _fetch_mock_jobs(imported_at)]
    ELSE LET response == requests_get(transport)
         IN  IF response.raised = "none" THEN response
             ELSE IF response.raised \in RequestException
             THEN [raised |-> "none", value |-> _fetch_mock_jobs(imported_at)]
             ELSE response


\* ------------------------------------------------------------------ models/job.py, routes/job_routes.py

\* Config.JOB_CACHE_TIMEOUT, in seconds
JOB_CACHE_TIMEOUT == 900

\* A new Job(external_id=...) as its INSERT stores it once its fields are assigned:
\* match_score defaults to 0.0 and posted_at to utcnow(); the primary key is the
\* next rowid.
Job(external_id, id, utcnow) ==
    [id |-> id, external_id |-> external_id, title |-> "", role |-> <<>>,
     company |-> "Acme Corp", location |-> "", description |-> <<>>,
     required_skills |-> <<>>, required_certifications |-> <<>>,
     match_score |-> 0, posted_at |-> utcnow]

\* The primary key an INSERT into jobs gets
next_job_id(J) == IF J = {} THEN 1 ELSE Max({j.id : j \in J}) + 1

\* payload.get(key, default)
payload_get(payload, key, default) ==
    IF key \in DOMAIN payload THEN payload[key] ELSE default

\* datetime.fromisoformat(value) on a str
fromisoformat(value) ==
    IF "iso" \in DOMAIN value THEN [raised |-> "none", value |-> value.iso]
    ELSE [raised |-> "ValueError", value |-> 0]

\* posted_at_value is truthy: not None (absent) and not the empty string
posted_at_truthy(payload) ==
    /\ "posted_at" \in DOMAIN payload
    /\ ("text" \in DOMAIN payload.posted_at => payload.posted_at.text # "")

\* isinstance(posted_at_value, str)
posted_at_is_str(value) == "iso" \in DOMAIN value \/ "text" \in DOMAIN value

\* Lines 55-60 left out: the posted timestamp of the job is never assigned.
posted_at_of_never_assigned(job, payload) ==
    [raised |-> "none", value |-> job.posted_at]

\* The value lines 55-60 leave in job.posted_at: [raised, value]
posted_at_of(job, payload) ==
    IF posted_at_truthy(payload)
    THEN IF posted_at_is_str(payload.posted_at) THEN fromisoformat(payload.posted_at)
         ELSE [raised |-> "none", value |-> payload.posted_at.dt]
    ELSE [raised |-> "none", value |-> job.posted_at]

\* Job.query.filter_by(external_id=external_id).first(), or a new Job added to the session
lookup_or_new(J, external_id, utcnow) ==
    LET found == {j \in J : j.external_id = external_id}
    IN  IF found = {} THEN Job(external_id, next_job_id(J), utcnow)
        ELSE CHOOSE j \in found : TRUE

\* The loop body replacing an existing row by a newly inserted one instead of
\* assigning to it.
_upsert_job_reinserting(J, payload, utcnow) ==
    IF "id" \notin DOMAIN payload THEN [raised |-> "KeyError", jobs |-> J]
    ELSE
    LET external_id == ToString(payload.id)
        found == {j \in J : j.external_id = external_id}
        job == Job(external_id, next_job_id(J), utcnow)
        posted == posted_at_of(lookup_or_new(J, external_id, utcnow), payload)
    IN  IF {"title", "role", "location"} \ DOMAIN payload # {}
        THEN [raised |-> "KeyError", jobs |-> J]
        ELSE IF posted.raised # "none" THEN [raised |-> posted.raised, jobs |-> J]
        ELSE [raised |-> "none",
              jobs |-> (J \ found) \cup
                {[job EXCEPT
                    !.title = payload.title,
                    !.role = payload.role,
                    !.company = payload_get(payload, "company", "Acme Corp"),
                    !.location = payload.location,
                    !.description = payload_get(payload, "description", <<>>),
                    !.required_skills = payload_get(payload, "required_skills", <<>>),
                    !.required_certifications =
                        payload_get(payload, "required_certifications", <<>>),
                    !.posted_at = posted.value]}]

\* One iteration of the loop of lines 40-60 on the session's view J of the jobs
\* table: [raised, jobs].
_upsert_job(J, payload, utcnow) ==
    IF "id" \notin DOMAIN payload THEN [raised |-> "KeyError", jobs |-> J]
    ELSE
    LET external_id == ToString(payload.id)
        job == lookup_or_new(J, external_id, utcnow)
        posted == posted_at_of(job, payload)
    IN  IF {"title", "role", "location"} \ DOMAIN payload # {}
        THEN [raised |-> "KeyError", jobs |-> J]
        ELSE IF posted.raised # "none" THEN [raised |-> posted.raised, jobs |-> J]
        ELSE [raised |-> "none",
              jobs |-> (J \ {job}) \cup
                {[job EXCEPT
                    !.title = payload.title,
                    !.role = payload.role,
                    !.company = payload_get(payload, "company", "Acme Corp"),
                    !.location = payload.location,
                    !.description = payload_get(payload, "description", <<>>),
                    !.required_skills = payload_get(payload, "required_skills", <<>>),
                    !.required_certifications =
                        payload_get(payload, "required_certifications", <<>>),
                    !.posted_at = posted.value]}]

\* The loop of lines 40-60 from payload i on
RECURSIVE _upsert_all(_, _, _, _)
_upsert_all(J, job_payloads, i, utcnow) ==
    IF i > Len(job_payloads) THEN [raised |-> "none", jobs |-> J]
    ELSE LET r == _upsert_job(J, job_payloads[i], utcnow)
         IN  IF r.raised # "none" THEN r
             ELSE _upsert_all(r.jobs, job_payloads, i + 1, utcnow)

\* seen_external_ids once the loop has ended
seen_external_ids(job_payloads) ==
    {ToString(job_payloads[i].id) : i \in DOMAIN job_payloads}

\* jobs_with_applications of lines 65-67
jobs_with_applications(A) == {a.job_id : a \in A}

\* Lines 62-74 with line 70 testing the local id of the row in place of its
\* external id.
jobs_to_delete_by_local_id(J, A, seen) ==
    IF seen # {}
    THEN {j \in J : ToString(j.id) \notin seen /\ j.id \notin jobs_with_applications(A)}
    ELSE {}

\* Lines 62-74 without the applications test of lines 65-71.
jobs_to_delete_applied_too(J, A, seen) ==
    IF seen # {} THEN {j \in J : j.external_id \notin seen} ELSE {}

\* The rows lines 62-74 delete
jobs_to_delete(J, A, seen) ==
    IF seen # {}
    THEN {j \in J : j.external_id \notin seen /\ j.id \notin jobs_with_applications(A)}
    ELSE {}

\* db.session.commit(): the unique index on external_id, or the database itself, may
\* refuse it.
commit(J, commit_ok) ==
    IF \E j1, j2 \in J : j1 # j2 /\ j1.external_id = j2.external_id THEN "IntegrityError"
    ELSE IF ~commit_ok THEN "OperationalError"
    ELSE "none"

\* should_refresh with the comparison of line 31 as >=
should_refresh_at_timeout(force, last_sync_at, utcnow) ==
    \/ force
    \/ last_sync_at = <<>>
    \/ utcnow - last_sync_at[1] >= JOB_CACHE_TIMEOUT

\* should_refresh of lines 28-32
should_refresh(force, last_sync_at, utcnow) ==
    \/ force
    \/ last_sync_at = <<>>
    \/ utcnow - last_sync_at[1] > JOB_CACHE_TIMEOUT

\* _sync_jobs_if_needed with line 76 moved before the commit of line 75: the
\* timestamp is written whether or not the commit succeeds.
_sync_jobs_if_needed_stamp_first(force, J, A, last_sync_at, utcnow, fetched, commit_ok) ==
    LET unchanged(raised, refreshed, stamp) ==
            [raised |-> raised, refreshed |-> refreshed, jobs |-> J, applications |-> A,
             last_sync_at |-> stamp]
    IN
    IF ~should_refresh(force, last_sync_at, utcnow)
    THEN unchanged("none", FALSE, last_sync_at)
    ELSE IF fetched.raised # "none" THEN unchanged(fetched.raised, TRUE, last_sync_at)
    ELSE
    LET upserted == _upsert_all(J, fetched.value, 1, utcnow)
        doomed == jobs_to_delete(upserted.jobs, A, seen_external_ids(fetched.value))
        kept == upserted.jobs \ doomed
        committed == commit(kept, commit_ok)
    IN  IF upserted.raised # "none" THEN unchanged(upserted.raised, TRUE, last_sync_at)
        ELSE IF committed # "none" THEN unchanged(committed, TRUE, <<utcnow>>)
        ELSE [raised |-> "none", refreshed |-> TRUE, jobs |-> kept,
              applications |-> {a \in A : a.job_id \notin {j.id : j \in doomed}},
              last_sync_at |-> <<utcnow>>]


\* _sync_jobs_if_needed flushing and committing after every payload of the loop: the
\* rows upserted before the payload that raises stay in the table.
_sync_jobs_if_needed_commit_per_payload(force, J, A, last_sync_at, utcnow, fetched, commit_ok) ==
    LET unchanged(raised, refreshed) ==
            [raised |-> raised, refreshed |-> refreshed, jobs |-> J, applications |-> A,
             last_sync_at |-> last_sync_at]
    IN
    IF ~should_refresh(force, last_sync_at, utcnow) THEN unchanged("none", FALSE)
    ELSE IF fetched.raised # "none" THEN unchanged(fetched.raised, TRUE)
    ELSE
    LET upserted == _upsert_all(J, fetched.value, 1, utcnow)
        doomed == jobs_to_delete(upserted.jobs, A, seen_external_ids(fetched.value))
        kept == upserted.jobs \ doomed
        committed == commit(kept, commit_ok)
    IN  IF upserted.raised # "none"
        THEN [unchanged(upserted.raised, TRUE) EXCEPT !.jobs = upserted.jobs]
        ELSE IF committed # "none" THEN unchanged(committed, TRUE)
        ELSE [raised |-> "none", refreshed |-> TRUE, jobs |-> kept,
              applications |-> {a \in A : a.job_id \notin {j.id : j \in doomed}},
              last_sync_at |-> <<utcnow>>]

\* _sync_jobs_if_needed(force) on jobs table J, applications table A and
\* _LAST_SYNC_AT = last_sync_at, when fetch_jobs() gives `fetched` and the commit is
\* allowed or not: what it raised, whether it refreshed, and the tables and
\* _LAST_SYNC_AT it leaves (an exception leaves the request's transaction to be
\* rolled back).
_sync_jobs_if_needed(force, J, A, last_sync_at, utcnow, fetched, commit_ok) ==
    LET unchanged(raised, refreshed) ==
            [raised |-> raised, refreshed |-> refreshed, jobs |-> J, applications |-> A,
             last_sync_at |-> last_sync_at]
    IN
    IF ~should_refresh(force, last_sync_at, utcnow) THEN unchanged("none", FALSE)
    ELSE IF fetched.raised # "none" THEN unchanged(fetched.raised, TRUE)
    ELSE
    LET upserted == _upsert_all(J, fetched.value, 1, utcnow)
        doomed == jobs_to_delete(upserted.jobs, A, seen_external_ids(fetched.value))
        kept == upserted.jobs \ doomed
        committed == commit(kept, commit_ok)
    IN  IF upserted.raised # "none" THEN unchanged(upserted.raised, TRUE)
        ELSE IF committed # "none" THEN unchanged(committed, TRUE)
        ELSE [raised |-> "none", refreshed |-> TRUE, jobs |-> kept,
              applications |-> {a \in A : a.job_id \notin {j.id : j \in doomed}},
              last_sync_at |-> <<utcnow>>]


\* ------------------------------------------------------------------ utils/match_scoring.py

\* _normalize_text: text.lower().strip()
_normalize_text(text) == str_strip(str_lower(text))


\* _normalize_list without the lower() of _normalize_text
_normalize_list_keeping_case(items) ==
    {str_strip(items[i]) : i \in {k \in DOMAIN items : str_strip(items[k]) # <<>>}}


\* _normalize_list removing one whitespace character at each end of an item where
\* strip() removes them all
_normalize_list_stripping_once(items) ==
    LET once(s) ==
            LET t == IF s # <<>> /\ s[1] \in Whitespace THEN Tail(s) ELSE s
            IN  IF t # <<>> /\ t[Len(t)] \in Whitespace THEN SubSeq(t, 1, Len(t) - 1) ELSE t
    IN  {once(str_lower(items[i])) : i \in {k \in DOMAIN items : str_strip(items[k]) # <<>>}}

\* _normalize_list on a list of str
_normalize_list(items) ==
    {_normalize_text(items[i]) : i \in {k \in DOMAIN items : str_strip(items[k]) # <<>>}}


\* _fuzzy_match testing the word overlap before the containment of line 40, so that
\* a contained text with enough words in common is scored by its overlap ratio.
_fuzzy_match_overlap_first(text1, text2) ==
    LET t1 == _normalize_text(text1)
        t2 == _normalize_text(text2)
        words1 == Range(str_split(t1))
        words2 == Range(str_split(t2))
        total_unique_words == Cardinality(words1 \cup words2)
        overlap_ratio == Frac(Cardinality(words1 \cap words2), total_unique_words)
    IN  IF t1 = t2 THEN <<1, 1>>
        ELSE IF total_unique_words # 0 /\ words1 # {} /\ words2 # {}
                /\ FLe(<<1, 2>>, overlap_ratio)
        THEN FAdd(<<6, 10>>, FMul(FAdd(overlap_ratio, <<-1, 2>>), <<8, 10>>))
        ELSE IF str_in(t1, t2) \/ str_in(t2, t1) THEN <<8, 10>>
        ELSE <<0, 1>>

\* _fuzzy_match scaling the overlap by 0.4 where line 58 scales it by 0.8
_fuzzy_match_half_slope(text1, text2) ==
    LET t1 == _normalize_text(text1)
        t2 == _normalize_text(text2)
        words1 == Range(str_split(t1))
        words2 == Range(str_split(t2))
        total_unique_words == Cardinality(words1 \cup words2)
        overlap_ratio == Frac(Cardinality(words1 \cap words2), total_unique_words)
    IN  IF t1 = t2 THEN <<1, 1>>
        ELSE IF str_in(t1, t2) \/ str_in(t2, t1) THEN <<8, 10>>
        ELSE IF words1 = {} \/ words2 = {} THEN <<0, 1>>
        ELSE IF FLe(<<1, 2>>, overlap_ratio)
        THEN FAdd(<<6, 10>>, FMul(FAdd(overlap_ratio, <<-1, 2>>), <<4, 10>>))
        ELSE <<0, 1>>

\* _fuzzy_match(text1, text2), a rational in [0, 1]
_fuzzy_match(text1, text2) ==
    LET t1 == _normalize_text(text1)
        t2 == _normalize_text(text2)
        words1 == Range(str_split(t1))
        words2 == Range(str_split(t2))
        common_words == words1 \cap words2
        total_unique_words == Cardinality(words1 \cup words2)
        overlap_ratio == Frac(Cardinality(common_words), total_unique_words)
    IN  IF t1 = t2 THEN <<1, 1>>
        ELSE IF str_in(t1, t2) \/ str_in(t2, t1) THEN <<8, 10>>
        ELSE IF words1 = {} \/ words2 = {} THEN <<0, 1>>
        ELSE IF total_unique_words = 0 THEN <<0, 1>>
        ELSE IF FLe(<<1, 2>>, overlap_ratio)
        THEN FAdd(<<6, 10>>, FMul(FAdd(overlap_ratio, <<-1, 2>>), <<8, 10>>))
        ELSE <<0, 1>>

\* the characters \w matches, and those [a-z] matches
WordChars ==
    Range(LowerCase) \cup Range(UpperCase)
        \cup {"0", "1", "2", "3", "4", "5", "6", "7", "8", "9", "_"}

Letters == Range(LowerCase)

\* the maximal runs of \w characters of s
word_runs(s) ==
    LET marked == [i \in DOMAIN s |-> IF s[i] \in WordChars THEN s[i] ELSE " "]
    IN  Range(str_split(marked))

\* stop_words of _extract_keywords
stop_words ==
    { <<"t", "h", "e">>, <<"a">>, <<"a", "n">>, <<"a", "n", "d">>, <<"o", "r">>,
      <<"b", "u", "t">>, <<"i", "n">>, <<"o", "n">>, <<"a", "t">>, <<"t", "o">>,
      <<"f", "o", "r">>, <<"o", "f">>, <<"w", "i", "t", "h">>, <<"b", "y">>,
      <<"f", "r", "o", "m">>, <<"a", "s">>, <<"i", "s">>, <<"w", "a", "s">>, <<"a", "r", "e">>,
      <<"w", "e", "r", "e">>, <<"b", "e">>, <<"b", "e", "e", "n">>,
      <<"b", "e", "i", "n", "g">>, <<"h", "a", "v", "e">>, <<"h", "a", "s">>,
      <<"h", "a", "d">>, <<"d", "o">>, <<"d", "o", "e", "s">>, <<"d", "i", "d">>,
      <<"w", "i", "l", "l">>, <<"w", "o", "u", "l", "d">>, <<"s", "h", "o", "u", "l", "d">>,
      <<"c", "o", "u", "l", "d">>, <<"m", "a", "y">>, <<"m", "i", "g", "h", "t">>,
      <<"m", "u", "s", "t">>, <<"c", "a", "n">>, <<"t", "h", "i", "s">>,
      <<"t", "h", "a", "t">>, <<"t", "h", "e", "s", "e">>, <<"t", "h", "o", "s", "e">>,
      <<"i">>, <<"y", "o", "u">>, <<"h", "e">>, <<"s", "h", "e">>, <<"i", "t">>, <<"w", "e">>,
      <<"t", "h", "e", "y">>, <<"w", "h", "a", "t">>, <<"w", "h", "i", "c", "h">>,
      <<"w", "h", "o">>, <<"w", "h", "e", "n">>, <<"w", "h", "e", "r", "e">>,
      <<"w", "h", "y">>, <<"h", "o", "w">>, <<"a", "l", "l">>, <<"e", "a", "c", "h">>,
      <<"e", "v", "e", "r", "y">>, <<"b", "o", "t", "h">>, <<"f", "e", "w">>,
      <<"m", "o", "r", "e">>, <<"m", "o", "s", "t">>, <<"o", "t", "h", "e", "r">>,
      <<"s", "o", "m", "e">>, <<"s", "u", "c", "h">>, <<"o", "n", "l", "y">>,
      <<"o", "w", "n">>, <<"s", "a", "m", "e">>, <<"t", "h", "a", "n">>, <<"t", "o", "o">>,
      <<"v", "e", "r", "y">>, <<"j", "u", "s", "t">>, <<"a", "b", "o", "u", "t">>,
      <<"i", "n", "t", "o">>, <<"t", "h", "r", "o", "u", "g", "h">>,
      <<"d", "u", "r", "i", "n", "g">>, <<"i", "n", "c", "l", "u", "d", "i", "n", "g">>,
      <<"a", "g", "a", "i", "n", "s", "t">>, <<"a", "m", "o", "n", "g">>,
      <<"t", "h", "r", "o", "u", "g", "h", "o", "u", "t">>
    }

\* _extract_keywords(text): re.findall(r'\b[a-z]+\b', text.lower()) matches the
\* maximal \w runs made of a-z only; stop words and words shorter than 3 are dropped.
_extract_keywords(text) ==
    IF text = <<>> THEN {}
    ELSE {w \in word_runs(str_lower(text)) :
            /\ \A i \in DOMAIN w : w[i] \in Letters
            /\ w \notin stop_words
            /\ Len(w) >= 3}

\* the sum of f[x] over the finite set S, f[x] rationals
RECURSIVE FSum(_, _)
FSum(f, S) ==
    IF S = {} THEN <<0, 1>>
    ELSE LET x == CHOOSE y \in S : TRUE IN FAdd(f[x], FSum(f, S \ {x}))

\* the largest of a finite set of rationals, 0.0 when it is empty
RECURSIVE FMaxOf(_)
FMaxOf(S) ==
    IF S = {} THEN <<0, 1>>
    ELSE LET x == CHOOSE y \in S : TRUE IN FMax(x, FMaxOf(S \ {x}))


\* skills_dimension keeping the smallest fuzzy match where line 123 keeps the largest
skills_dimension_worst_fuzzy(profile, job) ==
    LET profile_skills == _normalize_list(skills_list(profile))
        job_skills == _normalize_list(job.required_skills)
        exact_matches == Cardinality(job_skills \cap profile_skills)
        unmatched_job_skills == job_skills \ profile_skills
        matches(job_skill) ==
            {_fuzzy_match(profile_skill, job_skill) : profile_skill \in profile_skills}
        best_match ==
            [job_skill \in unmatched_job_skills |->
                FMul(IF matches(job_skill) = {} THEN <<0, 1>>
                     ELSE CHOOSE x \in matches(job_skill) :
                             \A y \in matches(job_skill) : FLe(x, y),
                     <<7, 10>>)]
        fuzzy_score == FSum(best_match, unmatched_job_skills)
        skill_score ==
            FMul(FAdd(<<exact_matches, 1>>, fuzzy_score), <<1, Cardinality(job_skills)>>)
    IN  IF job_skills # {}
        THEN [total |-> FMul(skill_score, <<3, 1>>), max |-> <<3, 1>>]
        ELSE [total |-> <<1, 2>>, max |-> <<3, 1>>]

\* skills_dimension giving a fuzzy match its whole score where line 124 gives 70%
skills_dimension_full_fuzzy_credit(profile, job) ==
    LET profile_skills == _normalize_list(skills_list(profile))
        job_skills == _normalize_list(job.required_skills)
        exact_matches == Cardinality(job_skills \cap profile_skills)
        unmatched_job_skills == job_skills \ profile_skills
        best_match ==
            [job_skill \in unmatched_job_skills |->
                FMaxOf({_fuzzy_match(profile_skill, job_skill) :
                           profile_skill \in profile_skills})]
        skill_score ==
            FMul(FAdd(<<exact_matches, 1>>, FSum(best_match, unmatched_job_skills)),
                 <<1, Cardinality(job_skills)>>)
    IN  IF job_skills # {}
        THEN [total |-> FMul(skill_score, <<3, 1>>), max |-> <<3, 1>>]
        ELSE [total |-> <<1, 2>>, max |-> <<3, 1>>]

\* lines 108-132: what the skills dimension adds to total_score and max_possible
skills_dimension(profile, job) ==
    LET profile_skills == _normalize_list(skills_list(profile))
        job_skills == _normalize_list(job.required_skills)
        exact_matches == Cardinality(job_skills \cap profile_skills)
        unmatched_job_skills == job_skills \ profile_skills
        best_match ==
            [job_skill \in unmatched_job_skills |->
                FMul(FMaxOf({_fuzzy_match(profile_skill, job_skill) :
                                profile_skill \in profile_skills}),
                     <<7, 10>>)]
        fuzzy_score == FSum(best_match, unmatched_job_skills)
        skill_score ==
            FMul(FAdd(<<exact_matches, 1>>, fuzzy_score), <<1, Cardinality(job_skills)>>)
    IN  IF job_skills # {}
        THEN [total |-> FMul(skill_score, <<3, 1>>), max |-> <<3, 1>>]
        ELSE [total |-> <<1, 2>>, max |-> <<3, 1>>]

\* lines 135-141: profile_text; reading profile.transcript_summary needs the attribute
profile_text(profile) ==
    (IF profile.summary # <<>> THEN profile.summary \o <<" ">> ELSE <<>>)
    \o (IF profile.transcript_summary # <<>>
        THEN profile.transcript_summary \o <<" ">> ELSE <<>>)
    \o (IF profile.experience # <<>> THEN profile.experience \o <<" ">> ELSE <<>>)


\* keyword_dimension measuring the matching keywords against the profile's keywords
\* where line 151 divides by the number of job keywords
keyword_dimension_over_profile_keywords(profile, job) ==
    LET text == profile_text(profile)
        job_keywords == _extract_keywords(job.description)
        profile_keywords == _extract_keywords(text)
        matching_keywords == Cardinality(job_keywords \cap profile_keywords)
    IN  IF text # <<>> /\ job.description # <<>>
        THEN IF job_keywords # {}
             THEN [total |-> FMul(Frac(matching_keywords,
                                       Max({Cardinality(profile_keywords), 1})),
                                  <<3, 2>>),
                   max |-> <<3, 2>>]
             ELSE [total |-> <<2, 10>>, max |-> <<3, 2>>]
        ELSE [total |-> <<0, 1>>, max |-> <<3, 2>>]

\* lines 143-157: the keyword dimension
keyword_dimension(profile, job) ==
    LET text == profile_text(profile)
        job_keywords == _extract_keywords(job.description)
        profile_keywords == _extract_keywords(text)
        matching_keywords == Cardinality(job_keywords \cap profile_keywords)
    IN  IF text # <<>> /\ job.description # <<>>
        THEN IF job_keywords # {}
             THEN [total |-> FMul(Frac(matching_keywords, Cardinality(job_keywords)),
                                  <<3, 2>>),
                   max |-> <<3, 2>>]
             ELSE [total |-> <<2, 10>>, max |-> <<3, 2>>]
        ELSE [total |-> <<0, 1>>, max |-> <<3, 2>>]


\* certifications_dimension giving no flat credit to a job without required
\* certifications: line 172 adding nothing.
certifications_dimension_no_flat_credit(profile, job) ==
    LET profile_certs == _normalize_list(certifications_list(profile))
        job_certs == _normalize_list(job.required_certifications)
        exact_cert_matches == Cardinality(job_certs \cap profile_certs)
    IN  IF job_certs # {} /\ exact_cert_matches > 0
        THEN [total |-> FMul(Frac(exact_cert_matches, Cardinality(job_certs)), <<3, 10>>),
              max |-> <<3, 10>>]
        ELSE [total |-> <<0, 1>>, max |-> <<3, 10>>]

\* lines 160-172: the certifications dimension
certifications_dimension(profile, job) ==
    LET profile_certs == _normalize_list(certifications_list(profile))
        job_certs == _normalize_list(job.required_certifications)
        exact_cert_matches == Cardinality(job_certs \cap profile_certs)
    IN  IF job_certs # {}
        THEN IF exact_cert_matches > 0
             THEN [total |-> FMul(Frac(exact_cert_matches, Cardinality(job_certs)),
                                  <<3, 10>>),
                   max |-> <<3, 10>>]
             ELSE [total |-> <<0, 1>>, max |-> <<3, 10>>]
        ELSE [total |-> <<1, 10>>, max |-> <<3, 10>>]


\* role_dimension weighing the shared words by 0.2 where line 191 weighs them by 0.15
role_dimension_full_weight_overlap(profile, job) ==
    LET job_role == _normalize_text(job.role)
        headline == _normalize_text(profile.headline)
        job_words == Range(str_split(job_role))
        headline_words == Range(str_split(headline))
        overlap == Cardinality(job_words \cap headline_words)
    IN  IF job.role # <<>> /\ profile.headline # <<>>
        THEN IF str_in(job_role, headline) THEN [total |-> <<2, 10>>, max |-> <<2, 10>>]
             ELSE IF job_words # {} /\ headline_words # {} /\ overlap > 0
             THEN [total |-> FMul(Frac(overlap, Max({Cardinality(job_words), 1})),
                                  <<2, 10>>),
                   max |-> <<2, 10>>]
             ELSE [total |-> <<0, 1>>, max |-> <<2, 10>>]
        ELSE [total |-> <<0, 1>>, max |-> <<2, 10>>]

\* lines 175-191: the role dimension
role_dimension(profile, job) ==
    LET job_role == _normalize_text(job.role)
        headline == _normalize_text(profile.headline)
        job_words == Range(str_split(job_role))
        headline_words == Range(str_split(headline))
        overlap == Cardinality(job_words \cap headline_words)
    IN  IF job.role # <<>> /\ profile.headline # <<>>
        THEN IF str_in(job_role, headline) THEN [total |-> <<2, 10>>, max |-> <<2, 10>>]
             ELSE IF job_words # {} /\ headline_words # {} /\ overlap > 0
             THEN [total |-> FMul(Frac(overlap, Max({Cardinality(job_words), 1})),
                                  <<15, 100>>),
                   max |-> <<2, 10>>]
             ELSE [total |-> <<0, 1>>, max |-> <<2, 10>>]
        ELSE [total |-> <<0, 1>>, max |-> <<2, 10>>]


\* score_totals counting toward max_possible only the dimensions that had inputs on
\* both sides, the others adding nothing to it.
score_totals_of_used_dimensions(profile, job) ==
    LET s == skills_dimension(profile, job)
        k == keyword_dimension(profile, job)
        c == certifications_dimension(profile, job)
        r == role_dimension(profile, job)
        used == [skills |-> job.required_skills # <<>>,
                 keywords |-> profile_text(profile) # <<>> /\ job.description # <<>>,
                 certifications |-> TRUE,
                 role |-> TRUE]
        ceiling(d, on) == IF on THEN d.max ELSE <<0, 1>>
    IN  [total |-> FAdd(FAdd(FAdd(s.total, k.total), c.total), r.total),
         max |-> FAdd(FAdd(FAdd(ceiling(s, used.skills), ceiling(k, used.keywords)),
                           ceiling(c, used.certifications)),
                      ceiling(r, used.role))]

\* total_score and max_possible at line 193
score_totals(profile, job) ==
    LET s == skills_dimension(profile, job)
        k == keyword_dimension(profile, job)
        c == certifications_dimension(profile, job)
        r == role_dimension(profile, job)
    IN  [total |-> FAdd(FAdd(FAdd(s.total, k.total), c.total), r.total),
         max |-> FAdd(FAdd(FAdd(s.max, k.max), c.max), r.max)]

\* lines 195-201: round(min(max(normalized_score, 0.0), 5.0), 1), in hundredths
normalized_score(totals) ==
    LET normalized ==
            IF FLe(totals.max, <<0, 1>>) THEN <<0, 1>>
            ELSE FMul(FMul(totals.total, <<totals.max[2], totals.max[1]>>), <<5, 1>>)
    IN  10 * RoundScaled(FMin(FMax(normalized, <<0, 1>>), <<5, 1>>), 10)

\* calculate_match_score without its guard of lines 102-103: an absent profile is
\* scored like one with every field empty.
calculate_match_score_unguarded(profile, job) ==
    LET empty ==
            [headline |-> <<>>, summary |-> <<>>, skills |-> <<>>, certifications |-> <<>>,
             experience |-> <<>>, resume_link |-> "", transcript_summary |-> <<>>]
        scored == IF profile = None THEN empty ELSE profile
    IN  IF "transcript_summary" \notin DOMAIN scored
        THEN [raised |-> "AttributeError", value |-> 0]
        ELSE [raised |-> "none", value |-> normalized_score(score_totals(scored, job))]

\* calculate_match_score(profile, job) of match_scoring.py: [raised, value], value in
\* hundredths.  A Profile row has no transcript_summary attribute unless the request
\* that loaded it has set one (profile_routes.py, line 77).
calculate_match_score(profile, job) ==
    IF profile = None THEN [raised |-> "none", value |-> 0]
    ELSE IF "transcript_summary" \notin DOMAIN profile
    THEN [raised |-> "AttributeError", value |-> 0]
    ELSE [raised |-> "none", value |-> normalized_score(score_totals(profile, job))]



\* Profile rows (models/profile.py): skills and certifications as the set listeners
\* store them, sorted and stripped.
profile_chef ==
    [headline |-> InputStr.Line_cook, summary |-> InputStr.chef_summary,
     skills |-> <<MockStr.Cooking, HelperStr.food_safety>>,
     certifications |-> <<HelperStr.food_handler_certification>>,
     experience |-> InputStr.chef_experience, resume_link |-> "https://cv.example/chef"]

\* The logged-in users that send requests.
Users == {1}

\* current_user.profile: user 1 has a complete profile; a user who saved none has None
profile_of(u) == IF u = 1 THEN profile_chef ELSE None

\* Job records as the external source lists them.
pay_A ==
    [id |-> 1, title |-> "Line Cook", role |-> HelperStr.Chef, company |-> "Bistro",
     location |-> "Boston", description |-> InputStr.d_A,
     required_skills |-> <<MockStr.Cooking, InputStr.pad_Food_Safety>>,
     required_certifications |-> <<MockStr.Food_Handler_Certification>>,
     posted_at |-> isoformat(-3600)]

\* the same external id relisted with another title and description, and without
\* company, skills, certifications and posted_at
pay_A2 ==
    [id |-> 1, title |-> "Head Cook", role |-> HelperStr.Chef, location |-> "Boston",
     description |-> InputStr.d_A2]

\* posted_at already a datetime
pay_B ==
    [id |-> 2, title |-> "Courier", role |-> HelperStr.Driver, company |-> "FastBite",
     location |-> "Austin", description |-> InputStr.d_B,
     required_skills |-> <<MockStr.Driving, MockStr.Food_Safety>>,
     required_certifications |-> <<MockStr.Driver_s_License>>,
     posted_at |-> [dt |-> -7200]]

\* a record without its title
pay_NoTitle == [id |-> 3, role |-> HelperStr.Cashier, location |-> "Austin"]

\* a record whose posted_at is a string that is no ISO-8601 timestamp
pay_BadDate ==
    [id |-> 2, title |-> "Courier", role |-> HelperStr.Driver, location |-> "Austin",
     posted_at |-> [text |-> "yesterday"]]

\* The listings the external source may hold.
FetchPool ==
    { <<>>, <<pay_A>>, <<pay_B, pay_A2>>, <<pay_B, pay_NoTitle>>, <<pay_A, pay_BadDate>> }

\* EMPLOYER_API_ENABLED and EMPLOYER_API_BASE_URL
ConfigPool ==
    { [enabled |-> TRUE, base_url |-> "https://employer.example"],
      [enabled |-> FALSE, base_url |-> "https://employer.example"],
      [enabled |-> TRUE, base_url |-> ""] }

\* What the network does to one GET /jobs.
NetPool == {"200", "404", "500", "ConnectionError", "Timeout"}

\* The settings and the network of the portal's requests: the API is enabled and
\* answers.
API_CONFIG == [enabled |-> TRUE, base_url |-> "https://employer.example"]

API_NET == "200"

\* The transport outcome of a GET /jobs under network outcome net when the source
\* lists `listing`.
Transport(net, listing) ==
    IF net \in {"ConnectionError", "Timeout"} THEN [kind |-> net]
    ELSE [kind |-> "response",
          status |-> CASE net = "200" -> 200 [] net = "404" -> 404 [] net = "500" -> 500,
          body |-> listing]


\* The profiles the scorer is applied to: rows as a query loads them, and the same
\* rows carrying the transcript_summary attribute manage_profile sets on its instance.
ProfileRows ==
    {[headline |-> h, summary |-> s, skills |-> sk, certifications |-> c,
      experience |-> e, resume_link |-> ""] :
        h \in {<<>>, InputStr.Line_cook, InputStr.Sous_Chef},
        s \in {<<>>, InputStr.chef_summary},
        sk \in {<<>>, <<MockStr.Cooking, HelperStr.food_safety>>, <<InputStr.cook>>,
                <<InputStr.safety_food_rules>>},
        c \in {<<>>, <<HelperStr.food_handler_certification>>},
        e \in {<<>>, InputStr.chef_experience}}

with_transcript_summary(profile, text) ==
    [k \in DOMAIN profile \cup {"transcript_summary"} |->
        IF k = "transcript_summary" THEN text ELSE profile[k]]

ScoreProfiles ==
    ProfileRows \cup
    {with_transcript_summary(p, t) : p \in ProfileRows, t \in {<<>>, InputStr.menu_work}}

\* The jobs the scorer is applied to.
ScoreJobs ==
    {[Job("1", 1, 0) EXCEPT !.title = "Line Cook", !.role = r, !.description = d,
                            !.required_skills = sk, !.required_certifications = c] :
        r \in {<<>>, HelperStr.Chef, InputStr.Head_Cook},
        d \in {<<>>, InputStr.d_A, InputStr.d_stop},
        sk \in {<<>>, <<MockStr.Cooking, InputStr.pad_Food_Safety>>, <<HelperStr.food_safety>>},
        c \in {<<>>, <<MockStr.Food_Handler_Certification>>}}

\* ------------------------------------------------------------------ state

MaxClock == 901

MaxApplications == 1

VARIABLES
    now,            \* datetime.utcnow()
    LAST_SYNC_AT,   \* job_routes._LAST_SYNC_AT: <<>> is None
    jobs,           \* the jobs table: a set of Job rows
    applications,   \* the applications table: a set of Application rows
    api_jobs,       \* what the external source lists now
    syncLog,        \* the last request, when it called _sync_jobs_if_needed
    scoring,        \* a call of match_scoring.calculate_match_score: its arguments and result
    fetching,       \* a call of fetch_jobs: its settings, transport outcome and result
    racing,         \* two requests inside _sync_jobs_if_needed at once: where each one is
    writing,        \* an assignment to Profile.skills or Profile.certifications: the row
    calling,        \* a call of one of the scorer's functions: its arguments and result
    viewing,        \* the job pages two viewers request at once: where each request is
    network,        \* connection requests, connections and chat messages, and the last request
    employer        \* the Employer API: its jobs and applications, and the last response

vars ==
    <<now, LAST_SYNC_AT, jobs, applications, api_jobs, syncLog, scoring, fetching,
      racing, writing, calling, viewing, network, employer>>

NoCall ==
    [op |-> "none", user |-> 0, job_id |-> 0, force |-> FALSE,
     refreshed |-> FALSE, raised |-> "none"]

\* a call that has not returned yet
Pending == [raised |-> "pending", value |-> 0]

NoScoring == [profile |-> None, job |-> Job("0", 0, 0), result |-> Pending]

NoFetching ==
    [config |-> API_CONFIG, imported_at |-> 0, transport |-> [kind |-> "none"],
     result |-> Pending]

\* no request is inside _sync_jobs_if_needed
NoRacing == [initial |-> {}, requests |-> <<>>]

\* no assignment to a profile is under way
NoWriting ==
    [column |-> "none",
     assigned |-> [skills |-> None, certifications |-> None],
     stored |-> [skills |-> <<>>, certifications |-> <<>>]]

\* no function of the scorer has been called
NoCalling == [function |-> "none"]

\* The portal after start-up: no job synced yet.
InitPortal ==
    /\ now = 0
    /\ LAST_SYNC_AT = <<>>
    /\ jobs = {}
    /\ applications = {}
    /\ api_jobs = <<>>
    /\ syncLog = NoCall

\* the calls and requests the other specifications look at, none of them under way
Idle ==
    /\ racing = NoRacing
    /\ writing = NoWriting
    /\ calling = NoCalling
    /\ viewing = <<>>
    /\ network = <<>>
    /\ employer = <<>>

Init ==
    /\ InitPortal
    /\ scoring = NoScoring
    /\ fetching = NoFetching
    /\ Idle

\* fetch_jobs() as this request sees it
Fetched == fetch_jobs(API_CONFIG, Transport(API_NET, api_jobs), 0)

\* the call _sync_jobs_if_needed(force) of this request
SyncCall(force, commit_ok) ==
    _sync_jobs_if_needed(force, jobs, applications, LAST_SYNC_AT, now, Fetched, commit_ok)

\* the commit outcomes to consider: a call that does not refresh commits nothing
CommitOutcomes(force) ==
    IF should_refresh(force, LAST_SYNC_AT, now) THEN BOOLEAN ELSE {TRUE}

CallLog(op, u, job_id, force, r) ==
    [op |-> op, user |-> u, job_id |-> job_id, force |-> force,
     refreshed |-> r.refreshed, raised |-> r.raised]

\* applications whose job row is missing (list_applications, lines 25-31)
orphaned_applications(J, A, u) ==
    {a \in A : a.user_id = u /\ a.job_id \notin {j.id : j \in J}}

\* Profile.is_complete
is_complete(profile) ==
    /\ profile.resume_link # ""
    /\ profile.experience # <<>>
    /\ skills_list(profile) # <<>>
    /\ certifications_list(profile) # <<>>

\* ------------------------------------------------------------------ requests

\* GET / : dashboard()
Dashboard(u) ==
    \E commit_ok \in CommitOutcomes(FALSE) :
        LET r == SyncCall(FALSE, commit_ok)
        IN  /\ jobs' = IF r.raised = "none"
                       THEN {update_job_match_score(j, profile_of(u)) : j \in r.jobs}
                       ELSE jobs
            /\ applications' = r.applications
            /\ LAST_SYNC_AT' = r.last_sync_at
            /\ syncLog' = CallLog("dashboard", u, 0, FALSE, r)
            /\ UNCHANGED <<now, api_jobs, scoring, fetching, racing, writing, calling, viewing, network, employer>>

\* GET /jobs : job_list()
JobList(u) ==
    \E commit_ok \in CommitOutcomes(FALSE) :
        LET r == SyncCall(FALSE, commit_ok)
        IN  /\ jobs' = IF r.raised = "none"
                       THEN {update_job_match_score(j, profile_of(u)) : j \in r.jobs}
                       ELSE jobs
            /\ applications' = r.applications
            /\ LAST_SYNC_AT' = r.last_sync_at
            /\ syncLog' = CallLog("job_list", u, 0, FALSE, r)
            /\ UNCHANGED <<now, api_jobs, scoring, fetching, racing, writing, calling, viewing, network, employer>>

\* GET /jobs/<job_id> : job_detail(job_id); job_id 0 is an id no row has (404)
JobDetail(u) ==
    \E commit_ok \in CommitOutcomes(FALSE) :
        LET r == SyncCall(FALSE, commit_ok)
        IN  \E job_id \in {j.id : j \in r.jobs} \cup {0} :
            /\ jobs' = IF r.raised = "none"
                       THEN {IF j.id = job_id
                             THEN update_job_match_score(j, profile_of(u)) ELSE j
                             : j \in r.jobs}
                       ELSE jobs
            /\ applications' = r.applications
            /\ LAST_SYNC_AT' = r.last_sync_at
            /\ syncLog' = CallLog("job_detail", u, job_id, FALSE, r)
            /\ UNCHANGED <<now, api_jobs, scoring, fetching, racing, writing, calling, viewing, network, employer>>

\* POST /jobs/refresh : refresh_jobs()
RefreshJobs(u) ==
    \E commit_ok \in CommitOutcomes(TRUE) :
        LET r == SyncCall(TRUE, commit_ok)
        IN  /\ jobs' = r.jobs
            /\ applications' = r.applications
            /\ LAST_SYNC_AT' = r.last_sync_at
            /\ syncLog' = CallLog("refresh_jobs", u, 0, TRUE, r)
            /\ UNCHANGED <<now, api_jobs, scoring, fetching, racing, writing, calling, viewing, network, employer>>

\* GET /applications/ : list_applications().  Its restore step (lines 34-103) runs
\* only when the user has an application whose job row is missing.
ListApplications(u) ==
    \E commit_ok \in CommitOutcomes(TRUE) :
        LET r == SyncCall(TRUE, commit_ok)
        IN  /\ orphaned_applications(r.jobs, r.applications, u) = {}
            /\ jobs' = r.jobs
            /\ applications' = r.applications
            /\ LAST_SYNC_AT' = r.last_sync_at
            /\ syncLog' = CallLog("list_applications", u, 0, TRUE, r)
            /\ UNCHANGED <<now, api_jobs, scoring, fetching, racing, writing, calling, viewing, network, employer>>

\* POST /applications/apply/<job_id> with a valid form : apply(job_id)
Apply(u) ==
    \E job \in jobs :
        /\ Cardinality(applications) < MaxApplications
        /\ profile_of(u) # None
        /\ is_complete(profile_of(u))
        /\ ~\E a \in applications : a.user_id = u /\ a.job_id = job.id
        /\ applications' = applications \cup
              {[id |-> IF applications = {} THEN 1
                       ELSE Max({a.id : a \in applications}) + 1,
                user_id |-> u, job_id |-> job.id, status |-> "submitted"]}
        /\ syncLog' = NoCall
        /\ UNCHANGED <<now, LAST_SYNC_AT, jobs, api_jobs, scoring, fetching, racing, writing, calling, viewing, network, employer>>

\* ------------------------------------------------------------------ environment

\* time passes
Tick ==
    \E d \in {JOB_CACHE_TIMEOUT, JOB_CACHE_TIMEOUT + 1} :
        /\ now + d <= MaxClock
        /\ now' = now + d
        /\ syncLog' = NoCall
        /\ UNCHANGED <<LAST_SYNC_AT, jobs, applications, api_jobs, scoring, fetching, racing, writing, calling, viewing, network, employer>>

\* the process restarts: module globals are re-initialised
Restart ==
    /\ LAST_SYNC_AT # <<>>
    /\ LAST_SYNC_AT' = <<>>
    /\ syncLog' = NoCall
    /\ UNCHANGED <<now, jobs, applications, api_jobs, scoring, fetching, racing, writing, calling, viewing, network, employer>>

\* the external source changes its listing
ApiPublish ==
    \E listing \in FetchPool :
        /\ listing # api_jobs
        /\ api_jobs' = listing
        /\ syncLog' = NoCall
        /\ UNCHANGED <<now, LAST_SYNC_AT, jobs, applications, scoring, fetching, racing, writing, calling, viewing, network, employer>>

Next ==
    \/ \E u \in Users : Dashboard(u)
    \/ \E u \in Users : JobList(u)
    \/ \E u \in Users : JobDetail(u)
    \/ \E u \in Users : RefreshJobs(u)
    \/ \E u \in Users : ListApplications(u)
    \/ \E u \in Users : Apply(u)
    \/ Tick
    \/ Restart
    \/ ApiPublish

Spec == Init /\ [][Next]_vars

\* ------------------------------------------------------------------ the scorer alone

portal_vars == <<now, LAST_SYNC_AT, jobs, applications, api_jobs, syncLog>>

InitScore ==
    /\ InitPortal
    /\ fetching = NoFetching
    /\ Idle
    /\ scoring \in {[profile |-> p, job |-> j, result |-> Pending] :
                        p \in ScoreProfiles \cup {None}, j \in ScoreJobs}

\* calculate_match_score(profile, job) is called and returns or raises
Score ==
    /\ scoring.result = Pending
    /\ scoring' = [scoring EXCEPT
                        !.result = calculate_match_score(scoring.profile, scoring.job)]
    /\ UNCHANGED <<portal_vars, fetching, racing, writing, calling, viewing, network, employer>>

NextScore == Score

SpecScore == InitScore /\ [][NextScore]_vars

\* ------------------------------------------------------------------ fetch_jobs alone

InitFetch ==
    /\ InitPortal
    /\ scoring = NoScoring
    /\ Idle
    /\ fetching \in {[config |-> c, imported_at |-> t, transport |-> [kind |-> "none"],
                         result |-> Pending] : c \in ConfigPool,
                         t \in {0, JOB_CACHE_TIMEOUT, JOB_CACHE_TIMEOUT + 1}}

\* fetch_jobs() is called while the network and the source behave in some way
FetchJobs ==
    \E net \in NetPool, listing \in FetchPool :
        /\ fetching.result = Pending
        /\ fetching' = [fetching EXCEPT
                !.transport = Transport(net, listing),
                !.result = fetch_jobs(fetching.config, Transport(net, listing),
                                      fetching.imported_at)]
        /\ UNCHANGED <<portal_vars, scoring, racing, writing, calling, viewing, network, employer>>

NextFetch == FetchJobs

SpecFetch == InitFetch /\ [][NextFetch]_vars

\* ------------------------------------------------------------------ two requests in _sync_jobs_if_needed

\* The requests that are inside _sync_jobs_if_needed at the same time, each in its
\* own thread with its own db.session.
Requests == {1, 2}

\* The jobs table a sync of `listing` at time 0 leaves in an empty database.
synced_table(listing) ==
    _sync_jobs_if_needed(TRUE, {}, {}, <<>>, 0,
                         [raised |-> "none", value |-> listing], TRUE).jobs

\* The listings an earlier sync may have stored.
EarlierListings == {l \in FetchPool : _upsert_all({}, l, 1, 0).raised = "none"}

\* A request at the first line of _sync_jobs_if_needed.  pc is the step it is
\* about to take; session holds the rows its unit of work will INSERT and UPDATE
\* and the ids it will DELETE.
NewRequest ==
    [pc |-> "check", refreshed |-> FALSE, raised |-> "none", job_payloads |-> <<>>,
     session |-> [inserted |-> {}, updated |-> {}, deleted |-> {}]]

InitRace ==
    /\ now = JOB_CACHE_TIMEOUT + 1
    /\ syncLog = NoCall
    /\ scoring = NoScoring
    /\ fetching = NoFetching
    /\ writing = NoWriting
    /\ calling = NoCalling
    /\ viewing = <<>>
    /\ network = <<>>
    /\ employer = <<>>
    /\ api_jobs \in FetchPool
    /\ \E earlier \in EarlierListings :
          /\ jobs = synced_table(earlier)
          /\ LAST_SYNC_AT \in (IF earlier = <<>> THEN {<<>>, <<0>>} ELSE {<<0>>})
    /\ applications \in
          {{}} \cup {{[id |-> 1, user_id |-> 1, job_id |-> j.id, status |-> "submitted"]} :
                        j \in jobs}
    /\ racing = [initial |-> jobs, requests |-> [r \in Requests |-> NewRequest]]

\* request r ends: what it raised, if anything
finished(r, raised) ==
    [racing EXCEPT !.requests[r].pc = "done", !.requests[r].raised = raised]

\* lines 27-35: request r reads _LAST_SYNC_AT and returns or goes on
RaceCheck(r) ==
    /\ racing.requests[r].pc = "check"
    /\ racing' =
          IF should_refresh(FALSE, LAST_SYNC_AT, now)
          THEN [racing EXCEPT !.requests[r].pc = "fetch", !.requests[r].refreshed = TRUE]
          ELSE finished(r, "none")
    /\ UNCHANGED <<portal_vars, scoring, fetching, writing, calling, viewing, network, employer>>

\* line 37: request r fetches the listing
RaceFetch(r) ==
    /\ racing.requests[r].pc = "fetch"
    /\ racing' =
          IF Fetched.raised # "none" THEN finished(r, Fetched.raised)
          ELSE [racing EXCEPT !.requests[r].pc = "loop",
                              !.requests[r].job_payloads = Fetched.value]
    /\ UNCHANGED <<portal_vars, scoring, fetching, writing, calling, viewing, network, employer>>

\* lines 40-74: request r runs the loop and marks the rows to delete, its queries
\* reading the rows committed so far; its own changes wait in its session.
RaceLoop(r) ==
    /\ racing.requests[r].pc = "loop"
    /\ LET job_payloads == racing.requests[r].job_payloads
           upserted == _upsert_all(jobs, job_payloads, 1, now)
           doomed == jobs_to_delete(upserted.jobs, applications,
                                    seen_external_ids(job_payloads))
           ids == {j.id : j \in jobs}
       IN  racing' =
              IF upserted.raised # "none" THEN finished(r, upserted.raised)
              ELSE [racing EXCEPT
                      !.requests[r].pc = "commit",
                      !.requests[r].session =
                          [inserted |-> {j \in upserted.jobs \ doomed : j.id \notin ids},
                           updated |-> {j \in upserted.jobs \ doomed :
                                            j.id \in ids /\ j \notin jobs},
                           deleted |-> {j.id : j \in doomed}]]
    /\ UNCHANGED <<portal_vars, scoring, fetching, writing, calling, viewing, network, employer>>

\* INSERT of the rows of a session into table T, in the order they were added; each
\* gets the next rowid.
RECURSIVE insert_rows(_, _)
insert_rows(T, rows) ==
    IF rows = {} THEN T
    ELSE LET first == CHOOSE j \in rows : \A k \in rows : j.id <= k.id
         IN  insert_rows(T \cup {[first EXCEPT !.id = next_job_id(T)]}, rows \ {first})

\* What the flush of a session raises on table T: the unique index on external_id
\* refuses an INSERT, an UPDATE finds its row gone.
flush_raises(T, session) ==
    IF \E j \in session.inserted : \E k \in T : k.external_id = j.external_id
    THEN "IntegrityError"
    ELSE IF \E j \in session.updated : j.id \notin {k.id : k \in T}
    THEN "StaleDataError"
    ELSE "none"

\* lines 75-76: request r commits and, if that succeeds, writes _LAST_SYNC_AT
RaceCommit(r) ==
    /\ racing.requests[r].pc = "commit"
    /\ LET session == racing.requests[r].session
           raised == flush_raises(jobs, session)
           gone == session.deleted \cup {j.id : j \in session.updated}
       IN  /\ racing' = finished(r, raised)
           /\ jobs' = IF raised # "none" THEN jobs
                      ELSE insert_rows({k \in jobs : k.id \notin gone} \cup session.updated,
                                       session.inserted)
           /\ LAST_SYNC_AT' = IF raised # "none" THEN LAST_SYNC_AT ELSE <<now>>
    /\ UNCHANGED <<now, applications, api_jobs, syncLog, scoring, fetching, writing, calling, viewing, network, employer>>

NextRace ==
    \/ \E r \in Requests : RaceCheck(r)
    \/ \E r \in Requests : RaceFetch(r)
    \/ \E r \in Requests : RaceLoop(r)
    \/ \E r \in Requests : RaceCommit(r)

SpecRace == InitRace /\ [][NextRace]_vars

\* ------------------------------------------------------------------ models/profile.py, routes/profile_routes.py

\* The characters of the strings here, in code point order.
CodePoints ==
    <<"\t", "\n", " ", "'", ",", ".">> \o
    <<"0", "1", "2", "3", "4", "5", "6", "7", "8", "9">> \o UpperCase \o <<"_">> \o LowerCase

\* ord(c)
ord(c) == CHOOSE i \in DOMAIN CodePoints : CodePoints[i] = c

\* a < b on two str
RECURSIVE str_lt(_, _)
str_lt(a, b) ==
    IF b = <<>> THEN FALSE
    ELSE IF a = <<>> THEN TRUE
    ELSE IF a[1] # b[1] THEN ord(a[1]) < ord(b[1])
    ELSE str_lt(Tail(a), Tail(b))

\* sorted(S) on a set of str
RECURSIVE sorted(_)
sorted(S) ==
    IF S = {} THEN <<>>
    ELSE LET least == CHOOSE a \in S : \A b \in S \ {a} : str_lt(a, b)
         IN  <<least>> \o sorted(S \ {least})

\* _normalize_skills building a list where lines 66 and 68-70 build a set: the
\* items are trimmed and blank ones dropped, repeated ones stay.
RECURSIVE sorted_list(_)
sorted_list(items) ==
    IF items = <<>> THEN <<>>
    ELSE LET i == CHOOSE k \in DOMAIN items :
                    \A m \in DOMAIN items : ~str_lt(items[m], items[k])
         IN  <<items[i]>> \o
             sorted_list(SubSeq(items, 1, i - 1) \o SubSeq(items, i + 1, Len(items)))

_normalize_skills_keeping_repeats(value) ==
    IF value = None THEN <<>>
    ELSE LET items == IF "list" \in DOMAIN value THEN value.list
                      ELSE split_on(value.str, {","}, <<>>, <<>>)
             kept == SelectSeq(items, LAMBDA s : str_strip(s) # <<>>)
         IN  sorted_list([i \in DOMAIN kept |-> str_strip(kept[i])])

\* A value assigned to the column: None, [list |-> a list of str] or [str |-> a str].
\* _normalize_skills: the list the "set" listener of Profile.skills stores for it.
_normalize_skills(value) ==
    IF value = None THEN <<>>
    ELSE IF "list" \in DOMAIN value
    THEN sorted({str_strip(skill) : skill \in {s \in Range(value.list) : str_strip(s) # <<>>}})
    ELSE sorted({str_strip(segment) :
                    segment \in {s \in Range(split_on(value.str, {","}, <<>>, <<>>)) :
                                    str_strip(s) # <<>>}})

\* _normalize_certs: the same for Profile.certifications
_normalize_certs(value) ==
    IF value = None THEN <<>>
    ELSE IF "list" \in DOMAIN value
    THEN sorted({str_strip(cert) : cert \in {s \in Range(value.list) : str_strip(s) # <<>>}})
    ELSE sorted({str_strip(segment) :
                    segment \in {s \in Range(split_on(value.str, {","}, <<>>, <<>>)) :
                                    str_strip(s) # <<>>}})

\* parse_comma_separated(raw) of helpers.py: the list of the stripped non-empty segments
parse_comma_separated(raw) ==
    IF raw = <<>> THEN <<>>
    ELSE LET segments == split_on(raw, {","}, <<>>, <<>>)
             kept == SelectSeq(segments, LAMBDA s : str_strip(s) # <<>>)
         IN  [i \in DOMAIN kept |-> str_strip(kept[i])]

\* What the skills and certifications fields of the profile form may hold.
FormTexts ==
    {<<>>, InputStr.blank, InputStr.csv_skills, InputStr.csv_repeat, MockStr.Cooking,
     InputStr.pad_Food_Safety}

\* The values other code may assign to the columns: None, lists and strings.
AssignedValues ==
    {None} \cup {[str |-> t] : t \in FormTexts}
        \cup {[list |-> l] :
                l \in {<<>>, <<MockStr.Cooking, HelperStr.cooking>>,
                       <<InputStr.pad_Food_Safety, MockStr.Food_Safety>>,
                       <<InputStr.blank, HelperStr.cooking, HelperStr.cooking>>}}

\* A new Profile: nothing assigned, both columns empty.
InitWrite ==
    /\ InitPortal
    /\ scoring = NoScoring
    /\ fetching = NoFetching
    /\ racing = NoRacing
    /\ calling = NoCalling
    /\ viewing = <<>>
    /\ network = <<>>
    /\ employer = <<>>
    /\ writing = NoWriting

\* manage_profile() on a valid form without video: lines 34-35 assign the parsed
\* form fields, line 40 (ensure_profile_lists) assigns each stored list again.
ManageProfile ==
    \E skills \in FormTexts, certifications \in FormTexts :
        LET parsed == [skills |-> [list |-> parse_comma_separated(skills)],
                       certifications |-> [list |-> parse_comma_separated(certifications)]]
        IN  /\ writing' =
                  [column |-> "form",
                   assigned |-> parsed,
                   stored |->
                      [skills |->
                          _normalize_skills([list |-> _normalize_skills(parsed.skills)]),
                       certifications |->
                          _normalize_certs(
                              [list |-> _normalize_certs(parsed.certifications)])]]
            /\ UNCHANGED <<portal_vars, scoring, fetching, racing, calling, viewing, network, employer>>

\* profile.skills = value
AssignSkills ==
    \E value \in AssignedValues :
        /\ writing' = [writing EXCEPT !.column = "skills",
                                      !.assigned.skills = value,
                                      !.stored.skills = _normalize_skills(value)]
        /\ UNCHANGED <<portal_vars, scoring, fetching, racing, calling, viewing, network, employer>>

\* profile.certifications = value
AssignCertifications ==
    \E value \in AssignedValues :
        /\ writing' = [writing EXCEPT !.column = "certifications",
                                      !.assigned.certifications = value,
                                      !.stored.certifications = _normalize_certs(value)]
        /\ UNCHANGED <<portal_vars, scoring, fetching, racing, calling, viewing, network, employer>>

NextWrite == ManageProfile \/ AssignSkills \/ AssignCertifications

SpecWrite == InitWrite /\ [][NextWrite]_vars

\* ------------------------------------------------------------------ match_scoring.py, function by function

\* "for item in items" at line 21: the items iterating over the argument yields.  A
\* list yields its elements, a str its characters (each a str of length one), a set
\* its members, None and every empty argument nothing (lines 19-20).
items_of(items) ==
    IF items = None THEN <<>>
    ELSE IF "list" \in DOMAIN items THEN items.list
    ELSE IF "str" \in DOMAIN items THEN [i \in DOMAIN items.str |-> <<items.str[i]>>]
    ELSE sorted(items.set)

\* What calculate_match_score has added to total_score and max_possible, dimension
\* by dimension, when it returns or raises: nothing for an absent profile (line 103),
\* the skills dimension alone when line 138 raises AttributeError.
contributions(profile, job) ==
    LET skills == [dimension |-> "skills"] @@ skills_dimension(profile, job)
    IN  IF profile = None THEN <<>>
        ELSE IF "transcript_summary" \notin DOMAIN profile THEN <<skills>>
        ELSE <<skills,
               [dimension |-> "keywords"] @@ keyword_dimension(profile, job),
               [dimension |-> "certifications"] @@ certifications_dimension(profile, job),
               [dimension |-> "role"] @@ role_dimension(profile, job)>>

\* update_job_match_score accumulating: job.match_score += calculate_match_score(...)
update_job_match_score_accumulating(job, profile) ==
    LET score == calculate_match_score(profile, job)
    IN  [raised |-> score.raised,
         job |-> IF score.raised = "none"
                 THEN [job EXCEPT !.match_score = job.match_score + score.value]
                 ELSE job]

\* update_job_match_score(job, profile) of match_scoring.py, lines 204-206:
\* job.match_score = calculate_match_score(profile, job); the job is left as it was
\* when the call raises.
match_scoring_update_job_match_score(job, profile) ==
    LET score == calculate_match_score(profile, job)
    IN  [raised |-> score.raised,
         job |-> IF score.raised = "none" THEN [job EXCEPT !.match_score = score.value]
                 ELSE job]

\* The arguments _normalize_list is called with.
NormalizeInputs ==
    {None}
        \cup {[list |-> l] :
                l \in {<<>>, <<MockStr.Cooking, InputStr.pad_Food_Safety, InputStr.blank>>,
                       <<HelperStr.cooking, MockStr.Cooking>>, <<InputStr.wide_Cooking>>}}
        \cup {[str |-> s] : s \in {<<>>, InputStr.blank, InputStr.csv_skills, MockStr.Cooking}}

\* The texts _fuzzy_match is called with.
FuzzyTexts ==
    {<<>>, InputStr.cook, HelperStr.cooking, InputStr.food, HelperStr.food_safety,
     MockStr.Food_Safety, InputStr.safety_food, InputStr.safety_food_rules}

\* A function of match_scoring.py is about to be called, its arguments chosen.
InitCalls ==
    /\ InitPortal
    /\ scoring = NoScoring
    /\ fetching = NoFetching
    /\ racing = NoRacing
    /\ writing = NoWriting
    /\ viewing = <<>>
    /\ network = <<>>
    /\ employer = <<>>
    /\ \/ \E items \in NormalizeInputs :
            calling = [function |-> "_normalize_list", args |-> <<items>>, results |-> <<>>]
       \/ \E a, b, c, d \in FuzzyTexts :
            calling = [function |-> "_fuzzy_match", args |-> <<<<a, b>>, <<c, d>>>>,
                       results |-> <<>>]
       \/ \E profile \in ScoreProfiles \cup {None}, job \in ScoreJobs :
            \E f \in {"calculate_match_score", "update_job_match_score"} :
                calling = [function |-> f, args |-> [profile |-> profile, job |-> job],
                           results |-> <<>>]
       \/ \E profile \in ScoreProfiles, job \in ScoreJobs :
            /\ job.role = HelperStr.Chef
            /\ job.required_certifications = <<>>
            /\ calling = [function |-> "one_more_skill",
                          args |-> [profile |-> profile, job |-> job], results |-> <<>>]

\* _normalize_list(items), then _normalize_list of the set it returned
NormalizeList ==
    /\ calling.function = "_normalize_list"
    /\ Len(calling.results) < 2
    /\ LET items == IF calling.results = <<>> THEN calling.args[1]
                    ELSE [set |-> calling.results[1]]
       IN  calling' = [calling EXCEPT
                          !.results = Append(@, _normalize_list(items_of(items)))]
    /\ UNCHANGED <<portal_vars, scoring, fetching, racing, writing, viewing, network, employer>>

\* _fuzzy_match(text1, text2) on the first pair of texts, then on the second
FuzzyMatch ==
    /\ calling.function = "_fuzzy_match"
    /\ Len(calling.results) < 2
    /\ LET pair == calling.args[Len(calling.results) + 1]
       IN  calling' = [calling EXCEPT
                          !.results = Append(@, _fuzzy_match(pair[1], pair[2]))]
    /\ UNCHANGED <<portal_vars, scoring, fetching, racing, writing, viewing, network, employer>>

\* calculate_match_score(profile, job), called once and once more: what it added and
\* what it returned or raised, and the profile and the job as it left them
CalculateMatchScore ==
    /\ calling.function = "calculate_match_score"
    /\ Len(calling.results) < 2
    /\ calling' = [calling EXCEPT
                      !.results =
                          Append(@, [added |-> contributions(calling.args.profile,
                                                             calling.args.job),
                                     returned |-> calculate_match_score(
                                                      calling.args.profile,
                                                      calling.args.job),
                                     profile |-> calling.args.profile,
                                     job |-> calling.args.job])]
    /\ UNCHANGED <<portal_vars, scoring, fetching, racing, writing, viewing, network, employer>>

\* calculate_match_score(profile, job), then calculate_match_score of the same job and
\* the profile holding one more skill
CalculateWithOneMoreSkill ==
    /\ calling.function = "one_more_skill"
    /\ Len(calling.results) < 2
    /\ \E skill \in {MockStr.Cooking, InputStr.pad_Food_Safety, InputStr.food, InputStr.blank} :
          LET profile == IF calling.results = <<>> THEN calling.args.profile
                         ELSE [calling.args.profile EXCEPT !.skills = Append(@, skill)]
          IN  calling' = [calling EXCEPT
                             !.results =
                                 Append(@, [added |-> contributions(profile, calling.args.job),
                                            returned |-> calculate_match_score(
                                                             profile, calling.args.job),
                                            profile |-> profile,
                                            job |-> calling.args.job])]
    /\ UNCHANGED <<portal_vars, scoring, fetching, racing, writing, viewing, network, employer>>

\* update_job_match_score(job, profile), called once and once more on the same job
UpdateJobMatchScore ==
    /\ calling.function = "update_job_match_score"
    /\ Len(calling.results) < 2
    /\ LET job == IF calling.results = <<>> THEN calling.args.job
                  ELSE calling.results[1].job
           updated == match_scoring_update_job_match_score(job, calling.args.profile)
       IN  calling' = [calling EXCEPT
                          !.results = Append(@, updated @@ [profile |-> calling.args.profile])]
    /\ UNCHANGED <<portal_vars, scoring, fetching, racing, writing, viewing, network, employer>>

NextCalls ==
    \/ NormalizeList
    \/ FuzzyMatch
    \/ CalculateMatchScore
    \/ UpdateJobMatchScore
    \/ CalculateWithOneMoreSkill

SpecCalls == InitCalls /\ [][NextCalls]_vars

\* ------------------------------------------------------------------ two viewers of the job pages at once

\* The users whose requests the threads of the server handle at the same time: user 1
\* has a profile, user 2 has saved none.
Viewers == {1, 2}

\* query.order_by(...).all() on the rows J: the orders the database may return them
\* in, a row that precedes another never after it.  The order is posted_at.desc()
\* ("posted_at"), match_score.desc() then posted_at.desc() ("match_score"), or none.
query_all(J, order_by) ==
    LET precedes(a, b) ==
            CASE order_by = "posted_at" -> a.posted_at > b.posted_at
              [] order_by = "match_score" ->
                    \/ a.match_score > b.match_score
                    \/ /\ a.match_score = b.match_score
                       /\ a.posted_at > b.posted_at
              [] OTHER -> FALSE
    IN  {s \in [1..Cardinality(J) -> J] :
            /\ \A i, k \in DOMAIN s : i # k => s[i] # s[k]
            /\ \A i, k \in DOMAIN s : i < k => ~precedes(s[k], s[i])}

\* Jobs synced a moment ago and nobody viewing them.
InitView ==
    /\ now = 0
    /\ syncLog = NoCall
    /\ api_jobs = <<>>
    /\ applications = {}
    /\ scoring = NoScoring
    /\ fetching = NoFetching
    /\ racing = NoRacing
    /\ writing = NoWriting
    /\ calling = NoCalling
    /\ network = <<>>
    /\ employer = <<>>
    /\ LAST_SYNC_AT = <<0>>
    /\ jobs \in {synced_table(earlier) : earlier \in EarlierListings}
    /\ viewing = [u \in Viewers |-> [pc |-> "idle", route |-> "none", job_id |-> 0,
                                    shown |-> <<>>]]

\* dashboard(), job_list() and job_detail() up to their db.session.commit(): the
\* cache is fresh, so _sync_jobs_if_needed returns at once; the rows are scored for
\* current_user.profile and committed (which expires them in the session).
ViewRescore(u) ==
    /\ viewing[u].pc \in {"idle", "done"}
    /\ ~should_refresh(FALSE, LAST_SYNC_AT, now)
    /\ \E route \in {"dashboard", "job_list", "job_detail"} :
       \E job_id \in IF route = "job_detail" THEN {j.id : j \in jobs} ELSE {0} :
          /\ jobs' = {IF route = "job_detail" /\ j.id # job_id THEN j
                      ELSE update_job_match_score(j, profile_of(u)) : j \in jobs}
          /\ viewing' = [viewing EXCEPT ![u] = [pc |-> "committed", route |-> route,
                                                job_id |-> job_id, shown |-> <<>>]]
    /\ UNCHANGED <<now, LAST_SYNC_AT, applications, api_jobs, syncLog, scoring, fetching,
                   racing, writing, calling, network, employer>>

\* The rest of the request: the rows handed to render_template are loaded from the
\* table as it is now: dashboard lines 109-115 (by posted_at, the first six),
\* job_list lines 181-201 (by match_score, then posted_at), job_detail line 221 (the
\* expired row is loaded again when the template reads it).
ViewQuery(u) ==
    /\ viewing[u].pc = "committed"
    /\ \E rows \in
          CASE viewing[u].route = "dashboard" ->
                  {SubSeq(s, 1, IF Len(s) < 6 THEN Len(s) ELSE 6) :
                      s \in query_all(jobs, "posted_at")}
            [] viewing[u].route = "job_list" ->
                  query_all(jobs, "match_score")
            [] viewing[u].route = "job_detail" ->
                  query_all({j \in jobs : j.id = viewing[u].job_id}, "none") :
          viewing' = [viewing EXCEPT ![u].pc = "done", ![u].shown = rows]
    /\ UNCHANGED <<portal_vars, scoring, fetching, racing, writing, calling, network,
                   employer>>

NextView == \E u \in Viewers : ViewRescore(u) \/ ViewQuery(u)

SpecView == InitView /\ [][NextView]_vars

\* ------------------------------------------------------------------ routes/connection_routes.py, routes/chat_routes.py

\* The registered users; 9 is an id no user has.
NetUsers == {1, 2, 3}

\* User.is_connected_with looking at connections_one only (line 92 without line 93)
is_connected_with_one_side(C, me, user_id) ==
    \E c \in C : c.user_one_id = me /\ c.user_two_id = user_id

\* User.is_connected_with(user_id) for the user `me`, on the connections table C
is_connected_with(C, me, user_id) ==
    \/ \E c \in C : c.user_one_id = me /\ c.user_two_id = user_id
    \/ \E c \in C : c.user_two_id = me /\ c.user_one_id = user_id

\* User.connection_request_with(user_id) on the requests table R: the pending request
\* sent to that user, else the pending one received from that user, else None
connection_request_with(R, me, user_id) ==
    LET sent == {r \in R : r.sender_id = me /\ r.receiver_id = user_id
                           /\ r.status = "pending"}
        received == {r \in R : r.receiver_id = me /\ r.sender_id = user_id
                               /\ r.status = "pending"}
    IN  IF sent # {} THEN <<CHOOSE r \in sent : TRUE>>
        ELSE IF received # {} THEN <<CHOOSE r \in received : TRUE>>
        ELSE <<>>

\* User.connected_users(): the partners through connections_one, then those through
\* connections_two; the candidates for its first element
first_connected_users(C, me) ==
    LET one == {c.user_two_id : c \in {c \in C : c.user_one_id = me}}
        two == {c.user_one_id : c \in {c \in C : c.user_two_id = me}}
    IN  IF one # {} THEN one ELSE two

\* _create_connection adding a row for the pair as given, without ordering it and
\* without looking for an existing row
_create_connection_unordered(C, sender_id, receiver_id) ==
    C \cup {[user_one_id |-> sender_id, user_two_id |-> receiver_id]}

\* _create_connection(sender_id, receiver_id): the connections table it leaves
_create_connection(C, sender_id, receiver_id) ==
    LET user_one_id == IF sender_id <= receiver_id THEN sender_id ELSE receiver_id
        user_two_id == IF sender_id <= receiver_id THEN receiver_id ELSE sender_id
    IN  IF \E c \in C : c.user_one_id = user_one_id /\ c.user_two_id = user_two_id
        THEN C
        ELSE C \cup {[user_one_id |-> user_one_id, user_two_id |-> user_two_id]}

MaxRequestId == 2

MaxMessages == 1

\* Nobody has asked for a connection or written a message yet.
InitConnect ==
    /\ InitPortal
    /\ scoring = NoScoring
    /\ fetching = NoFetching
    /\ racing = NoRacing
    /\ writing = NoWriting
    /\ calling = NoCalling
    /\ viewing = <<>>
    /\ employer = <<>>
    /\ network = [requests |-> {}, connections |-> {}, messages |-> {},
                  last |-> [op |-> "none", outcome |-> "none"]]

\* the tables a request leaves, and whether it did what was asked ("done"), turned
\* it down ("refused") or only rendered a page ("page")
Respond(op, outcome, R, C, M) ==
    /\ network' = [requests |-> R, connections |-> C, messages |-> M,
                   last |-> [op |-> op, outcome |-> outcome]]
    /\ UNCHANGED <<portal_vars, scoring, fetching, racing, writing, calling, viewing,
                   employer>>

\* POST /connections/request/<user_id> by current_user
SendRequest(current_user, user_id, valid) ==
    LET R == network.requests
        C == network.connections
        M == network.messages
        existing_request == connection_request_with(R, current_user, user_id)
        request_from_target ==
            {r \in R : r.sender_id = user_id /\ r.receiver_id = current_user
                       /\ r.status = "pending"}
        accept(r) ==
            Respond("send_request", "done", R \ {r},
                    _create_connection(C, r.sender_id, r.receiver_id), M)
    IN  IF ~valid THEN Respond("send_request", "refused", R, C, M)
        ELSE IF user_id = current_user THEN Respond("send_request", "refused", R, C, M)
        ELSE IF user_id \notin NetUsers THEN Respond("send_request", "refused", R, C, M)
        ELSE IF is_connected_with(C, current_user, user_id)
        THEN Respond("send_request", "refused", R, C, M)
        ELSE IF existing_request # <<>>
        THEN IF existing_request[1].receiver_id = current_user
             THEN accept(existing_request[1])
             ELSE Respond("send_request", "refused", R, C, M)
        ELSE IF request_from_target # {}
        THEN accept(CHOOSE r \in request_from_target : TRUE)
        ELSE IF \E r \in R : r.sender_id = current_user /\ r.receiver_id = user_id
        THEN Respond("send_request", "refused", R, C, M)
        ELSE /\ next_job_id(R) <= MaxRequestId
             /\ Respond("send_request", "done",
                        R \cup {[id |-> next_job_id(R), sender_id |-> current_user,
                                 receiver_id |-> user_id, status |-> "pending"]},
                        C, M)

\* POST /connections/requests/<request_id>/accept by current_user
AcceptRequest(current_user, request_id, valid) ==
    LET R == network.requests
        C == network.connections
        M == network.messages
        found == {r \in R : r.id = request_id}
        connection_request == CHOOSE r \in found : TRUE
    IN  IF ~valid THEN Respond("accept_request", "refused", R, C, M)
        ELSE IF found = {} THEN Respond("accept_request", "refused", R, C, M)
        ELSE IF connection_request.receiver_id # current_user
        THEN Respond("accept_request", "refused", R, C, M)
        ELSE Respond("accept_request", "done", R \ {connection_request},
                     _create_connection(C, connection_request.sender_id,
                                        connection_request.receiver_id),
                     M)

\* POST /connections/requests/<request_id>/decline by current_user
DeclineRequest(current_user, request_id, valid) ==
    LET R == network.requests
        C == network.connections
        M == network.messages
        found == {r \in R : r.id = request_id}
        connection_request == CHOOSE r \in found : TRUE
    IN  IF ~valid THEN Respond("decline_request", "refused", R, C, M)
        ELSE IF found = {} THEN Respond("decline_request", "refused", R, C, M)
        ELSE IF connection_request.receiver_id # current_user
        THEN Respond("decline_request", "refused", R, C, M)
        ELSE Respond("decline_request", "done", R \ {connection_request}, C, M)

\* POST /connections/remove/<user_id> by current_user
RemoveConnection(current_user, user_id, valid) ==
    LET R == network.requests
        C == network.connections
        M == network.messages
        connection ==
            {c \in C : \/ c.user_one_id = current_user /\ c.user_two_id = user_id
                       \/ c.user_two_id = current_user /\ c.user_one_id = user_id}
        pair == {current_user, user_id}
    IN  IF ~valid THEN Respond("remove_connection", "refused", R, C, M)
        ELSE IF user_id = current_user THEN Respond("remove_connection", "refused", R, C, M)
        ELSE IF user_id \notin NetUsers THEN Respond("remove_connection", "refused", R, C, M)
        ELSE IF connection = {} THEN Respond("remove_connection", "refused", R, C, M)
        ELSE Respond("remove_connection", "done",
                     {r \in R : ~(r.sender_id \in pair /\ r.receiver_id \in pair)},
                     C \ {CHOOSE c \in connection : TRUE}, M)

\* the messages table after db.session.add(message) and the commit: the senders and
\* receivers of the rows it holds
store_message(M, sender_id, receiver_id) ==
    M \cup {[sender_id |-> sender_id, receiver_id |-> receiver_id]}

\* GET or POST /chat/?user_id=<selected_user_id> by current_user; selected_user_id 0
\* is no user_id given, `posted` a POST whose form validates
ChatHome(current_user, selected_user_id, posted) ==
    LET R == network.requests
        C == network.connections
        M == network.messages
        connected == {u \in NetUsers : is_connected_with(C, current_user, u)}
        selected ==
            IF selected_user_id # 0 THEN connected \cap {selected_user_id}
            ELSE first_connected_users(C, current_user)
    IN  IF selected_user_id # 0 /\ selected = {}
        THEN Respond("chat_home", "refused", R, C, M)
        ELSE IF posted /\ selected # {}
        THEN \E selected_user \in selected :
                IF ~is_connected_with(C, current_user, selected_user)
                THEN Respond("chat_home", "refused", R, C, M)
                ELSE /\ Cardinality(M) < MaxMessages
                     /\ Respond("chat_home", "done", R, C,
                                store_message(M, current_user, selected_user))
        ELSE Respond("chat_home", "page", R, C, M)

\* handle_send_message without the test of lines 100-101
HandleSendMessage_unconnected_too(sender_id, receiver_id, filled) ==
    LET R == network.requests
        C == network.connections
        M == network.messages
    IN  IF sender_id = 0 \/ receiver_id = 0 \/ ~filled
        THEN Respond("send_message", "refused", R, C, M)
        ELSE IF sender_id \notin NetUsers \/ receiver_id \notin NetUsers
        THEN Respond("send_message", "refused", R, C, M)
        ELSE /\ Cardinality(M) < MaxMessages
             /\ Respond("send_message", "done", R, C,
                        store_message(M, sender_id, receiver_id))

\* the socket event send_message with data = {sender_id, receiver_id, room, content};
\* id 0 is a missing one, `filled` a room and a content that is not blank
HandleSendMessage(sender_id, receiver_id, filled) ==
    LET R == network.requests
        C == network.connections
        M == network.messages
    IN  IF sender_id = 0 \/ receiver_id = 0 \/ ~filled
        THEN Respond("send_message", "refused", R, C, M)
        ELSE IF sender_id \notin NetUsers \/ receiver_id \notin NetUsers
        THEN Respond("send_message", "refused", R, C, M)
        ELSE IF ~is_connected_with(C, sender_id, receiver_id)
        THEN Respond("send_message", "refused", R, C, M)
        ELSE /\ Cardinality(M) < MaxMessages
             /\ Respond("send_message", "done", R, C,
                        store_message(M, sender_id, receiver_id))

NextConnect ==
    \/ \E u \in NetUsers, t \in NetUsers \cup {9}, valid \in BOOLEAN :
          \/ SendRequest(u, t, valid)
          \/ RemoveConnection(u, t, valid)
    \/ \E u \in NetUsers, request_id \in 1..(MaxRequestId + 1), valid \in BOOLEAN :
          \/ AcceptRequest(u, request_id, valid)
          \/ DeclineRequest(u, request_id, valid)
    \/ \E u \in NetUsers, t \in NetUsers \cup {0, 9}, posted \in BOOLEAN :
          ChatHome(u, t, posted)
    \/ \E s, t \in NetUsers \cup {0, 9}, filled \in BOOLEAN : HandleSendMessage(s, t, filled)

SpecConnect == InitConnect /\ [][NextConnect]_vars

\* ------------------------------------------------------------------ apply and withdraw_application, request by request

\* The users who apply: user 1 has a complete profile, user 2 has saved none.
Applicants == {1, 2}

MaxStoredApplications == 3

\* Jobs are synced and nobody has applied.
InitApply ==
    /\ now = 0
    /\ api_jobs = <<>>
    /\ scoring = NoScoring
    /\ fetching = NoFetching
    /\ Idle
    /\ LAST_SYNC_AT = <<0>>
    /\ jobs \in {synced_table(earlier) : earlier \in EarlierListings}
    /\ applications = {}
    /\ syncLog = NoCall

\* what apply and withdraw_application leave: the applications table and, in the
\* log, the request and "none" when it did what was asked, "refused" otherwise
Answer(op, current_user, id, outcome, A) ==
    /\ applications' = A
    /\ syncLog' = CallLog(op, current_user, id, FALSE,
                          [refreshed |-> FALSE, raised |-> outcome])
    /\ UNCHANGED <<now, LAST_SYNC_AT, jobs, api_jobs, scoring, fetching, racing, writing,
                   calling, viewing, network, employer>>

\* GET or POST /applications/apply/<job_id> by current_user; `posted` is a POST whose
\* form validates.  The row is committed at line 150; lines 152-168 report it to the
\* employer API and change no table.
ApplyRequest(current_user, job_id, posted) ==
    LET profile == profile_of(current_user)
        row == [id |-> IF applications = {} THEN 1
                       ELSE Max({a.id : a \in applications}) + 1,
                user_id |-> current_user, job_id |-> job_id, status |-> "submitted"]
    IN  IF job_id \notin {j.id : j \in jobs}
        THEN Answer("apply", current_user, job_id, "refused", applications)
        ELSE IF profile = None \/ ~is_complete(profile)
        THEN Answer("apply", current_user, job_id, "refused", applications)
        ELSE IF \E a \in applications : a.user_id = current_user /\ a.job_id = job_id
        THEN Answer("apply", current_user, job_id, "refused", applications)
        ELSE IF ~posted
        THEN Answer("apply", current_user, job_id, "refused", applications)
        ELSE /\ Cardinality(applications) < MaxStoredApplications
             /\ Answer("apply", current_user, job_id, "none", applications \cup {row})

\* withdraw_application without the test of lines 236-238
WithdrawApplication_of_anyone(current_user, application_id) ==
    LET found == {a \in applications : a.id = application_id}
        application == CHOOSE a \in found : TRUE
    IN  IF found = {}
        THEN Answer("withdraw", current_user, application_id, "refused", applications)
        ELSE IF application.status \notin {"submitted", "pending"}
        THEN Answer("withdraw", current_user, application_id, "refused", applications)
        ELSE Answer("withdraw", current_user, application_id, "none",
                    (applications \ {application})
                        \cup {[application EXCEPT !.status = "withdrawn"]})

\* POST /applications/withdraw/<application_id> by current_user
WithdrawApplication(current_user, application_id) ==
    LET found == {a \in applications : a.id = application_id}
        application == CHOOSE a \in found : TRUE
    IN  IF found = {}
        THEN Answer("withdraw", current_user, application_id, "refused", applications)
        ELSE IF application.user_id # current_user
        THEN Answer("withdraw", current_user, application_id, "refused", applications)
        ELSE IF application.status \notin {"submitted", "pending"}
        THEN Answer("withdraw", current_user, application_id, "refused", applications)
        ELSE Answer("withdraw", current_user, application_id, "none",
                    (applications \ {application})
                        \cup {[application EXCEPT !.status = "withdrawn"]})

NextApply ==
    \/ \E u \in Applicants, job_id \in 0..2, posted \in BOOLEAN : ApplyRequest(u, job_id, posted)
    \/ \E u \in Applicants, application_id \in 1..MaxStoredApplications :
          WithdrawApplication(u, application_id)

SpecApply == InitApply /\ [][NextApply]_vars

\* ------------------------------------------------------------------ Employer API: routes/application_routes.py

MaxEmployerJobs == 2
MaxEmployerApplications == 1

\* JSON values of a request body
JsonInt(n) == [json |-> "int", n |-> n, d |-> 1, s |-> <<>>]
JsonFloat(n, d) == [json |-> "float", n |-> n, d |-> d, s |-> <<>>]
JsonStr(s) == [json |-> "str", n |-> 0, d |-> 1, s |-> s]
JsonOther(kind) == [json |-> kind, n |-> 0, d |-> 1, s |-> <<>>]

\* int(value) of a JSON value: the integer, or the exception raised
py_int(value) ==
    LET DigitChars == <<"0", "1", "2", "3", "4", "5", "6", "7", "8", "9">>
        text == str_rstrip(str_lstrip(value.s))
        signed == text # <<>> /\ text[1] \in {"+", "-"}
        digits == IF signed THEN Tail(text) ELSE text
        digit(c) == CHOOSE k \in 0..9 : DigitChars[k + 1] = c
        val[i \in 0..Len(digits)] ==
            IF i = 0 THEN 0 ELSE 10 * val[i - 1] + digit(digits[i])
        parsed == IF signed /\ text[1] = "-" THEN 0 - val[Len(digits)] ELSE val[Len(digits)]
    IN  CASE value.json = "int" -> [raised |-> "none", value |-> value.n]
          [] value.json = "bool" -> [raised |-> "none", value |-> value.n]
          [] value.json = "float" ->
                [raised |-> "none",
                 value |-> IF value.n >= 0 THEN value.n \div value.d
                           ELSE 0 - ((0 - value.n) \div value.d)]
          [] value.json = "Infinity" -> [raised |-> "OverflowError", value |-> 0]
          [] value.json = "str" ->
                IF digits # <<>> /\ \A i \in DOMAIN digits : digits[i] \in Range(DigitChars)
                THEN [raised |-> "none", value |-> parsed]
                ELSE [raised |-> "ValueError", value |-> 0]
          [] OTHER -> [raised |-> "TypeError", value |-> 0]

JobIdValues ==
    { JsonInt(1), JsonInt(2), JsonInt(7), JsonStr(<<" ", "1">>), JsonStr(<<"1", ".", "5">>),
      JsonStr(<<"D", "1">>), JsonFloat(3, 2), JsonOther("Infinity"), JsonOther("null"),
      [JsonOther("bool") EXCEPT !.n = 1], JsonOther("array") }

UserIdValues ==
    { JsonInt(5), JsonStr(<<"-", "5">>), JsonStr(<<"u", "5">>), JsonOther("null"),
      JsonOther("Infinity") }

ResumeLinkValues == { JsonStr(<<"r">>), JsonOther("null") }

\* request.get_json(): an object holding some of the fields, or null
Bodies ==
    { [kind |-> "null", fields |-> <<>>] }
        \cup { [kind |-> "object", fields |-> [job_id |-> j, user_id |-> u, resume_link |-> r]] :
                  j \in JobIdValues, u \in UserIdValues, r \in ResumeLinkValues }
        \cup { [kind |-> "object", fields |-> [user_id |-> JsonInt(5), resume_link |-> JsonStr(<<"r">>)]],
               [kind |-> "object", fields |-> [job_id |-> JsonInt(1), resume_link |-> JsonStr(<<"r">>)]],
               [kind |-> "object", fields |-> [job_id |-> JsonInt(1), user_id |-> JsonInt(5)]],
               [kind |-> "object", fields |-> [cover_letter |-> JsonStr(<<"r">>)]] }

\* The Employer API's database after db.create_all(): no job, no application.
InitEmployer ==
    /\ now = 0
    /\ LAST_SYNC_AT = <<>>
    /\ jobs = {}
    /\ applications = {}
    /\ api_jobs = <<>>
    /\ syncLog = NoCall
    /\ scoring = NoScoring
    /\ fetching = NoFetching
    /\ racing = NoRacing
    /\ writing = NoWriting
    /\ calling = NoCalling
    /\ viewing = <<>>
    /\ network = <<>>
    /\ employer = [jobs |-> {}, applications |-> {},
                   last |-> [op |-> "none", data |-> [kind |-> "null", fields |-> <<>>],
                             status |-> 0]]

\* the response of a request and the tables it leaves
Reply(op, data, status, J, A) ==
    /\ employer' = [jobs |-> J, applications |-> A,
                    last |-> [op |-> op, data |-> data, status |-> status]]
    /\ UNCHANGED <<now, LAST_SYNC_AT, jobs, applications, api_jobs, syncLog, scoring,
                   fetching, racing, writing, calling, viewing, network>>

\* POST /jobs (routes/job_routes.py): `authorized` is a request with the API key,
\* `complete` one whose five required fields are present and truthy.
CreateJob(authorized, complete) ==
    LET J == employer.jobs
        id == IF J = {} THEN 1 ELSE Max(J) + 1
    IN  IF ~authorized
        THEN Reply("create_job", [kind |-> "null", fields |-> <<>>], 401, J, employer.applications)
        ELSE IF ~complete
        THEN Reply("create_job", [kind |-> "null", fields |-> <<>>], 400, J, employer.applications)
        ELSE /\ Cardinality(J) < MaxEmployerJobs
             /\ Reply("create_job", [kind |-> "null", fields |-> <<>>], 201, J \cup {id},
                      employer.applications)

\* create_application without the test of lines 53-58
create_application_for_any_job(data) ==
    LET J == employer.jobs
        A == employer.applications
        job_id == py_int(data.fields.job_id)
        user_id == py_int(data.fields.user_id)
        application == [id |-> IF A = {} THEN 1 ELSE Max({a.id : a \in A}) + 1,
                        job_id |-> job_id.value, user_id |-> user_id.value]
    IN  IF data.kind = "null"
        THEN Reply("create_application", data, 500, J, A)
        ELSE IF \E field \in {"job_id", "user_id", "resume_link"} : field \notin DOMAIN data.fields
        THEN Reply("create_application", data, 400, J, A)
        ELSE IF job_id.raised \in {"ValueError", "TypeError"}
        THEN Reply("create_application", data, 400, J, A)
        ELSE IF job_id.raised # "none"
        THEN Reply("create_application", data, 500, J, A)
        ELSE IF user_id.raised \in {"ValueError", "TypeError"}
        THEN Reply("create_application", data, 400, J, A)
        ELSE IF user_id.raised # "none"
        THEN Reply("create_application", data, 500, J, A)
        ELSE IF data.fields.resume_link.json = "null"
        THEN Reply("create_application", data, 500, J, A)
        ELSE /\ Cardinality(A) < MaxEmployerApplications
             /\ Reply("create_application", data, 201, J, A \cup {application})

\* POST /applications with JSON body `data`.  `field not in None` raises TypeError,
\* int() of a non-finite float raises OverflowError and a null resume_link fails the
\* NOT NULL constraint at commit: the handler of line 87 rolls back and answers 500.
create_application(data) ==
    LET J == employer.jobs
        A == employer.applications
        job_id == py_int(data.fields.job_id)
        user_id == py_int(data.fields.user_id)
        application == [id |-> IF A = {} THEN 1 ELSE Max({a.id : a \in A}) + 1,
                        job_id |-> job_id.value, user_id |-> user_id.value]
    IN  IF data.kind = "null"
        THEN Reply("create_application", data, 500, J, A)
        ELSE IF \E field \in {"job_id", "user_id", "resume_link"} : field \notin DOMAIN data.fields
        THEN Reply("create_application", data, 400, J, A)
        ELSE IF job_id.raised \in {"ValueError", "TypeError"}
        THEN Reply("create_application", data, 400, J, A)
        ELSE IF job_id.raised # "none"
        THEN Reply("create_application", data, 500, J, A)
        ELSE IF job_id.value \notin J
        THEN Reply("create_application", data, 404, J, A)
        ELSE IF user_id.raised \in {"ValueError", "TypeError"}
        THEN Reply("create_application", data, 400, J, A)
        ELSE IF user_id.raised # "none"
        THEN Reply("create_application", data, 500, J, A)
        ELSE IF data.fields.resume_link.json = "null"
        THEN Reply("create_application", data, 500, J, A)
        ELSE /\ Cardinality(A) < MaxEmployerApplications
             /\ Reply("create_application", data, 201, J, A \cup {application})

NextEmployer ==
    \/ \E authorized, complete \in BOOLEAN : CreateJob(authorized, complete)
    \/ \E data \in Bodies : create_application(data)

SpecEmployer == InitEmployer /\ [][NextEmployer]_vars

\* ------------------------------------------------------------------ claims on the scorer

\* C1: for every profile that is not absent and every job, calculate_match_score
\* returns a value in [0.0, 5.0].
C1_ScoreInRange ==
    (scoring.result # Pending /\ scoring.profile # None)
        => /\ scoring.result.raised = "none"
           /\ scoring.result.value >= 0
           /\ scoring.result.value <= 500

\* C2: when the profile is absent the score is exactly 0.0, whatever the job
\* requires or describes.
C2_AbsentProfileScoresZero ==
    (scoring.result # Pending /\ scoring.profile = None)
        => scoring.result = [raised |-> "none", value |-> 0]

\* C2 witness: an absent profile has been scored against a job that requires no skill
\* and no certification, the job on which a present profile earns the flat credits.
C2_Witness ==
    /\ scoring.result # Pending
    /\ scoring.profile = None
    /\ scoring.job.required_skills = <<>>
    /\ scoring.job.required_certifications = <<>>

\* ------------------------------------------------------------------ claims on the requests

\* the requests that call _sync_jobs_if_needed
SyncOps == {"dashboard", "job_list", "job_detail", "refresh_jobs", "list_applications"}

\* the requests that store match scores once the sync has returned
RescoreOps == {"dashboard", "job_list", "job_detail"}

\* a job row without its match score
WithoutScore(j) == [k \in DOMAIN j \ {"match_score"} |-> j[k]]

\* the last request called _sync_jobs_if_needed(force=True) and it returned
ForcedSyncDone ==
    /\ syncLog.op \in SyncOps
    /\ syncLog.force
    /\ syncLog.raised = "none"

\* the cache is stale or was never filled: what a call without force refreshes on
Stale(last_sync_at, utcnow) ==
    \/ last_sync_at = <<>>
    \/ utcnow - last_sync_at[1] > JOB_CACHE_TIMEOUT

\* the weighted score of (profile, job) when the profile carries every attribute the
\* scorer reads
weighted_score(profile, job) ==
    IF profile = None \/ "transcript_summary" \in DOMAIN profile
    THEN calculate_match_score(profile, job).value
    ELSE calculate_match_score(with_transcript_summary(profile, <<>>), job).value

\* C3: once dashboard, job_list or job_detail has rescored a job for the current
\* user, the stored match_score is the weighted 0-5 score of (the user's profile,
\* the job).
C3_StoredScoreIsWeighted ==
    (syncLog.op \in RescoreOps /\ syncLog.raised = "none")
        => \A j \in jobs :
              (syncLog.op = "job_detail" => j.id = syncLog.job_id)
                  => j.match_score = weighted_score(profile_of(syncLog.user), j)

\* C4: a call refreshes exactly when force is set, or nothing was synced yet in this
\* process, or more than the timeout has passed since the last sync; any other call
\* leaves the jobs, the applications and the timestamp as they were.
C4_Step ==
    syncLog'.op \in SyncOps
        => LET due == \/ syncLog'.force
                      \/ LAST_SYNC_AT = <<>>
                      \/ now - LAST_SYNC_AT[1] > JOB_CACHE_TIMEOUT
           IN  /\ syncLog'.refreshed <=> due
               /\ ~due => /\ LAST_SYNC_AT' = LAST_SYNC_AT
                          /\ applications' = applications
                          /\ {WithoutScore(j) : j \in jobs'} = {WithoutScore(j) : j \in jobs}
                          /\ syncLog'.op \notin RescoreOps => jobs' = jobs

C4_RefreshExactlyWhenDue == [][C4_Step]_vars

\* C4 witness: a dashboard request exactly JOB_CACHE_TIMEOUT seconds after the last
\* sync returned without refreshing.
C4_Witness ==
    /\ syncLog.op = "dashboard"
    /\ ~syncLog.refreshed
    /\ LAST_SYNC_AT # <<>>
    /\ now - LAST_SYNC_AT[1] = JOB_CACHE_TIMEOUT
    /\ jobs # {}

\* C5: at most one job per external identifier, and a step never changes the local
\* id of the job of an external identifier.
C5_Step ==
    /\ \A j1, j2 \in jobs' : j1.external_id = j2.external_id => j1 = j2
    /\ \A j1 \in jobs, j2 \in jobs' : j1.external_id = j2.external_id => j1.id = j2.id

C5_OneJobPerExternalId == [][C5_Step]_vars

\* C5 witness: the job of external id "1", created from the "Line Cook" record, now
\* holds the title of the later record, under the id it was created with, next to
\* the job created by the same sync.
C5_Witness ==
    /\ syncLog.op \in SyncOps
    /\ syncLog.refreshed
    /\ \E j \in jobs : j.external_id = "1" /\ j.id = 1 /\ j.title = "Head Cook"
                       /\ j.posted_at = fromisoformat(pay_A.posted_at).value
    /\ \E j \in jobs : j.external_id = "2" /\ j.id = 2

\* the record's posted_at is present and not empty
carries_posted_at(payload) ==
    /\ "posted_at" \in DOMAIN payload
    /\ payload.posted_at # [text |-> ""]

\* the timestamp a record's posted_at denotes
fetched_posted_at(payload) ==
    IF "dt" \in DOMAIN payload.posted_at THEN payload.posted_at.dt
    ELSE payload.posted_at.iso

\* job j holds the fields of the fetched record, a field the record leaves out
\* being the column's default, and `posted` as its posted timestamp
HoldsRecord(j, payload, posted) ==
    /\ j.external_id = ToString(payload.id)
    /\ j.title = payload.title
    /\ j.role = payload.role
    /\ j.location = payload.location
    /\ j.company = (IF "company" \in DOMAIN payload THEN payload.company ELSE "Acme Corp")
    /\ j.description = (IF "description" \in DOMAIN payload THEN payload.description ELSE <<>>)
    /\ j.required_skills =
          (IF "required_skills" \in DOMAIN payload THEN payload.required_skills ELSE <<>>)
    /\ j.required_certifications =
          (IF "required_certifications" \in DOMAIN payload
           THEN payload.required_certifications ELSE <<>>)
    /\ j.posted_at = posted

\* C6 as stated: after a successful forced sync every fetched record has a local job
\* holding the fetched values, the posted timestamp included, the same for a job
\* that already existed as for one this sync created (whose posted timestamp is the
\* record's, or the time of creation when the record carries none).
C6_AllFieldsOverwritten ==
    ForcedSyncDone
        => \A i \in DOMAIN api_jobs :
              \E j \in jobs :
                  HoldsRecord(j, api_jobs[i],
                              IF carries_posted_at(api_jobs[i])
                              THEN fetched_posted_at(api_jobs[i]) ELSE now)

\* C6 amended: after a successful forced sync of records with distinct external
\* ids, every fetched record has a local job holding the fetched title, role,
\* company, location, description, skills and certifications (defaults where the
\* record leaves them out); the posted timestamp is the record's when it carries
\* one, and otherwise the one the job had before, or the time of the sync for a job
\* this sync created.
C6_Step ==
    (syncLog'.op \in SyncOps /\ syncLog'.force /\ syncLog'.raised = "none")
        => \A i \in DOMAIN api_jobs :
              LET payload == api_jobs[i]
                  before == {j \in jobs : j.external_id = ToString(payload.id)}
              IN  \E j \in jobs' :
                      HoldsRecord(j, payload,
                                  IF carries_posted_at(payload) THEN fetched_posted_at(payload)
                                  ELSE IF before = {} THEN now
                                  ELSE (CHOOSE b \in before : TRUE).posted_at)

C6_FetchedFieldsStored == [][C6_Step]_vars

\* C6 witness: a forced sync of a record without posted_at has overwritten the title
\* and company of the job of external id "1" and left it the posted timestamp the
\* earlier record gave it.
C6_Witness ==
    /\ ForcedSyncDone
    /\ api_jobs = <<pay_B, pay_A2>>
    /\ \E j \in jobs : /\ HoldsRecord(j, pay_A2, fetched_posted_at(pay_A))
                       /\ j.posted_at # now

\* C7 as stated: after a successful forced sync no job is left that is absent from
\* the fetched set and has no application, whatever the fetched set, the empty one
\* included.
C7_UnlistedJobsDeleted ==
    ForcedSyncDone
        => \A j \in jobs :
              \/ \E i \in DOMAIN api_jobs : ToString(api_jobs[i].id) = j.external_id
              \/ \E a \in applications : a.job_id = j.id

\* C7 amended: a successful forced sync of a non-empty fetched set deletes every
\* stored job that is absent from the set and has no application; a successful
\* forced sync of an empty fetched set deletes nothing.
C7_Step ==
    (syncLog'.op \in SyncOps /\ syncLog'.force /\ syncLog'.raised = "none")
        => IF api_jobs # <<>>
           THEN \A j \in jobs :
                    ( /\ \A i \in DOMAIN api_jobs : ToString(api_jobs[i].id) # j.external_id
                      /\ \A a \in applications : a.job_id # j.id )
                        => \A j2 \in jobs' : j2.id # j.id /\ j2.external_id # j.external_id
           ELSE jobs' = jobs

C7_UnlistedJobsDeletedUnlessEmpty == [][C7_Step]_vars

\* C7 witness: after a forced sync of the one-record listing the only job left is
\* the one of external id "1" with local id 2: the job that had local id 1, absent
\* from the listing and without application, is gone.
C7_Witness ==
    /\ ForcedSyncDone
    /\ api_jobs = <<pay_A>>
    /\ applications = {}
    /\ {<<j.external_id, j.id>> : j \in jobs} = {<<"1", 2>>}

\* C8: a sync leaves every job that has an application and is absent from the
\* fetched set in place with its fields (the handlers' rescoring aside), it leaves
\* the applications alone, and every application refers to an existing job.
C8_Step ==
    /\ \A a \in applications' : \E j \in jobs' : j.id = a.job_id
    /\ (syncLog'.op \in SyncOps /\ syncLog'.refreshed)
          => /\ applications' = applications
             /\ \A j \in jobs :
                    ( /\ \E a \in applications : a.job_id = j.id
                      /\ \A i \in DOMAIN api_jobs : ToString(api_jobs[i].id) # j.external_id )
                        => IF syncLog'.op \in RescoreOps
                           THEN \E j2 \in jobs' : WithoutScore(j2) = WithoutScore(j)
                           ELSE j \in jobs'

C8_AppliedJobsPreserved == [][C8_Step]_vars

\* C8 witness: a refresh of a non-empty listing has returned and a job with an
\* application whose external id the listing lacks is still stored.
C8_Witness ==
    /\ syncLog.op \in SyncOps
    /\ syncLog.refreshed
    /\ syncLog.raised = "none"
    /\ api_jobs # <<>>
    /\ \E j \in jobs :
          /\ \E a \in applications : a.job_id = j.id
          /\ \A i \in DOMAIN api_jobs : ToString(api_jobs[i].id) # j.external_id

\* C9 as stated: after a call that raised, the next call without force finds the
\* cache stale or never synced.
C9_StaleAfterFailure ==
    (syncLog.op \in SyncOps /\ syncLog.raised # "none") => Stale(LAST_SYNC_AT, now)

\* C9 amended: only a call whose commit succeeded writes the timestamp (to the time
\* of the call); a call that raises leaves the timestamp and the tables as they
\* were, so a cache that was stale or never synced stays so for the next call
\* without force, while a forced refresh that fails on a fresh cache leaves it fresh.
C9_Step ==
    /\ LAST_SYNC_AT' # LAST_SYNC_AT
          => \/ LAST_SYNC_AT' = <<>> /\ syncLog'.op = "none"
             \/ /\ syncLog'.op \in SyncOps
                /\ syncLog'.refreshed
                /\ syncLog'.raised = "none"
                /\ LAST_SYNC_AT' = <<now>>
    /\ (syncLog'.op \in SyncOps /\ syncLog'.raised # "none")
          => /\ LAST_SYNC_AT' = LAST_SYNC_AT
             /\ jobs' = jobs
             /\ applications' = applications
             /\ Stale(LAST_SYNC_AT, now) => Stale(LAST_SYNC_AT', now')
             /\ ~syncLog'.force => Stale(LAST_SYNC_AT', now')

C9_TimestampOnlyAfterCommit == [][C9_Step]_vars

\* C9 witness: a dashboard request found the cache stale, its refresh raised, and
\* the timestamp of the earlier sync is still the one stored.
C9_Witness ==
    /\ syncLog.op = "dashboard"
    /\ syncLog.raised # "none"
    /\ LAST_SYNC_AT # <<>>
    /\ now - LAST_SYNC_AT[1] > JOB_CACHE_TIMEOUT

\* ------------------------------------------------------------------ claims on fetch_jobs

SingleRefresh ==
    _sync_jobs_if_needed(FALSE, racing.initial, applications, <<>>, now, Fetched, TRUE)

\* both requests passed the staleness check and have ended
BothRefreshed ==
    \A r \in Requests : racing.requests[r].pc = "done" /\ racing.requests[r].refreshed

\* C11: when two requests both pass the staleness check and refresh at once from
\* the same fetched data, each ends as a single refresh ends, without an error of
\* its own, and the jobs table is the one a single refresh leaves.
C11_RaceHarmless ==
    BothRefreshed
        => /\ \A r \in Requests : racing.requests[r].raised = SingleRefresh.raised
           /\ {WithoutScore(j) : j \in jobs} = {WithoutScore(j) : j \in SingleRefresh.jobs}

\* ------------------------------------------------------------------ claims on profile writes

\* the columns the listeners guard
ListColumns == {"skills", "certifications"}

\* the items of an assigned value: the elements of a list, the comma-separated
\* segments of a string, nothing for None
assigned_items(value) ==
    IF value = None THEN {}
    ELSE IF "list" \in DOMAIN value THEN Range(value.list)
    ELSE Range(split_on(value.str, {","}, <<>>, <<>>))

\* a stored list without duplicates whose elements are trimmed
TrimmedDistinct(stored) ==
    /\ \A i, j \in DOMAIN stored : i # j => stored[i] # stored[j]
    /\ \A i \in DOMAIN stored : stored[i] # <<>> /\ str_strip(stored[i]) = stored[i]

\* C12 as stated: after any write to skills or certifications the stored list has
\* no duplicates and every element is lowercase and whitespace-trimmed.
C12_StoredLowercaseTrimmed ==
    \A c \in ListColumns :
        /\ TrimmedDistinct(writing.stored[c])
        /\ \A i \in DOMAIN writing.stored[c] :
              str_lower(writing.stored[c][i]) = writing.stored[c][i]

\* C12 amended: after any write of a list, a comma-joined string or None the stored
\* list holds, once each and trimmed, exactly the non-blank items assigned, in the
\* letter case they were written in: nothing is lowercased, and items that differ
\* only in case are both kept.
C12_StoredTrimmedDistinct ==
    \A c \in ListColumns :
        /\ TrimmedDistinct(writing.stored[c])
        /\ Range(writing.stored[c]) =
              {str_strip(item) : item \in assigned_items(writing.assigned[c])} \ {<<>>}

\* C12 witness: a list with a blank item and the same skill twice was assigned to
\* skills, and one element is stored.
C12_Witness ==
    /\ writing.column = "skills"
    /\ writing.assigned.skills =
          [list |-> <<InputStr.blank, HelperStr.cooking, HelperStr.cooking>>]
    /\ writing.stored.skills = <<HelperStr.cooking>>

\* ------------------------------------------------------------------ claims on the functions of match_scoring.py

\* the latest result of the call
returned == calling.results[Len(calling.results)]

\* the lowercase, trimmed, non-empty tokens of a set of strings
tokens(strings) == {str_strip(str_lower(s)) : s \in strings} \ {<<>>}

\* the first call of _normalize_list has returned
Normalized == calling.function = "_normalize_list" /\ Len(calling.results) >= 1

\* C13 as stated: _normalize_list returns the lowercase, trimmed, non-empty tokens of
\* a list of strings or of the comma-separated segments of a single string, and the
\* empty set for an empty or None argument.
C13_TokensOfListOrSegments ==
    Normalized
        => LET items == calling.args[1]
           IN  calling.results[1] =
                  IF items = None THEN {}
                  ELSE IF "list" \in DOMAIN items THEN tokens(Range(items.list))
                  ELSE tokens(Range(split_on(items.str, {","}, <<>>, <<>>)))

\* C13 amended: _normalize_list returns the lowercase, trimmed, non-empty tokens of a
\* list of strings and the empty set for an empty or None argument; a single string
\* is not split at its commas, it is iterated character by character, so the result
\* is the set of its lowercased characters other than whitespace.
C13_TokensOfItems ==
    Normalized
        => LET items == calling.args[1]
           IN  calling.results[1] =
                  IF items = None THEN {}
                  ELSE IF "list" \in DOMAIN items THEN tokens(Range(items.list))
                  ELSE {<<lower_char(c)>> : c \in Range(items.str) \ Whitespace}

\* C13 witness: a list holding a capitalised skill, a padded one and a blank one was
\* normalized to two lowercase tokens.
C13_Witness ==
    /\ Normalized
    /\ calling.args[1] =
          [list |-> <<MockStr.Cooking, InputStr.pad_Food_Safety, InputStr.blank>>]
    /\ calling.results[1] = {HelperStr.cooking, HelperStr.food_safety}

\* a call of calculate_match_score has returned or raised
Calculated == calling.function = "calculate_match_score" /\ Len(calling.results) >= 1

\* what the dimension of that name added in the latest call: its contributions, none
\* when the call ended before the dimension
added(dimension) == {a \in Range(returned.added) : a.dimension = dimension}

\* two rationals are equal
FEq(x, y) == x[1] * y[2] = y[1] * x[2]

\* C14: for a job with neither required skills nor required certifications and any
\* profile, the skills dimension adds exactly 0.5 to the total and 3.0 to the
\* ceiling, and the certifications dimension adds exactly 0.1 and 0.3.
C14_FlatCredits ==
    (/\ Calculated
     /\ calling.args.job.required_skills = <<>>
     /\ calling.args.job.required_certifications = <<>>)
        => /\ \A a \in added("skills") : FEq(a.total, <<5, 10>>) /\ FEq(a.max, <<3, 1>>)
           /\ \A a \in added("certifications") :
                 FEq(a.total, <<1, 10>>) /\ FEq(a.max, <<3, 10>>)

\* C14 witness: a profile with skills and a certification was scored against a job
\* that requires neither, and both dimensions made their contribution.
C14_Witness ==
    /\ Calculated
    /\ calling.args.job.required_skills = <<>>
    /\ calling.args.job.required_certifications = <<>>
    /\ calling.args.profile # None
    /\ calling.args.profile.skills # <<>>
    /\ calling.args.profile.certifications # <<>>
    /\ added("skills") # {}
    /\ added("certifications") # {}

\* max_possible when the latest call returned: the ceilings the dimensions added
max_possible == FSum([i \in DOMAIN returned.added |-> returned.added[i].max],
                     DOMAIN returned.added)

\* total_score when the latest call returned
total_score == FSum([i \in DOMAIN returned.added |-> returned.added[i].total],
                    DOMAIN returned.added)

\* The case of C15: the profile's skills are cooking and food safety, the job
\* requires exactly those and no certification, and there is no description, summary,
\* experience or headline to compare; the call has returned.
SkillsOnlyCase ==
    /\ Calculated
    /\ returned.returned.raised = "none"
    /\ calling.args.profile # None
    /\ tokens(Range(calling.args.profile.skills)) = {HelperStr.cooking, HelperStr.food_safety}
    /\ tokens(Range(calling.args.job.required_skills))
          = {HelperStr.cooking, HelperStr.food_safety}
    /\ calling.args.job.required_certifications = <<>>
    /\ calling.args.job.description = <<>>
    /\ profile_text(calling.args.profile) = <<>>
    /\ calling.args.profile.headline = <<>>

words_of(text) == Range(str_split(str_strip(str_lower(text))))

\* the share of their distinct words two texts have in common, 0 when they have none
overlap_of(pair) ==
    LET all == words_of(pair[1]) \cup words_of(pair[2])
    IN  IF all = {} THEN <<0, 1>>
        ELSE <<Cardinality(words_of(pair[1]) \cap words_of(pair[2])), Cardinality(all)>>

\* two texts are equal once normalized, or one contains the other
Identical(pair) == str_strip(str_lower(pair[1])) = str_strip(str_lower(pair[2]))

Contained(pair) ==
    LET t1 == str_strip(str_lower(pair[1]))
        t2 == str_strip(str_lower(pair[2]))
    IN  str_in(t1, t2) \/ str_in(t2, t1)

\* _fuzzy_match has returned for both pairs of texts
BothMatched == calling.function = "_fuzzy_match" /\ Len(calling.results) = 2

\* the pair shares at least half of its words
SharesHalf(pair) == FLe(<<1, 2>>, overlap_of(pair))

\* C16 as stated: of two pairs of strings that each share at least 50% of their
\* words, the pair with the larger overlap ratio gets a result at least as large, and
\* both results are in [0.6, 1.0]; a pair with less than 50% overlap that is neither
\* identical nor substring-related gets exactly 0.0.
C16_MonotoneInOverlap ==
    BothMatched
        => /\ \A i, j \in {1, 2} :
                (/\ SharesHalf(calling.args[i])
                 /\ SharesHalf(calling.args[j])
                 /\ FLe(overlap_of(calling.args[i]), overlap_of(calling.args[j])))
                    => /\ FLe(calling.results[i], calling.results[j])
                       /\ FLe(<<6, 10>>, calling.results[i])
                       /\ FLe(calling.results[j], <<1, 1>>)
           /\ \A i \in {1, 2} :
                (/\ ~SharesHalf(calling.args[i])
                 /\ ~Identical(calling.args[i])
                 /\ ~Contained(calling.args[i]))
                    => FEq(calling.results[i], <<0, 1>>)

\* C16 amended: the result grows with the overlap ratio only among pairs that are
\* neither identical nor substring-related; a pair where one text contains the other
\* gets 0.8 whatever its overlap, which can exceed the result of a pair that shares
\* more of its words.  Every pair sharing at least 50% of its words gets a result in
\* [0.6, 1.0], and a pair with less than 50% overlap that is neither identical nor
\* substring-related gets exactly 0.0.
C16_MonotoneUnlessContained ==
    BothMatched
        => /\ \A i, j \in {1, 2} :
                (/\ SharesHalf(calling.args[i])
                 /\ SharesHalf(calling.args[j])
                 /\ FLe(overlap_of(calling.args[i]), overlap_of(calling.args[j])))
                    => /\ (/\ ~Identical(calling.args[i]) /\ ~Contained(calling.args[i])
                           /\ ~Identical(calling.args[j]) /\ ~Contained(calling.args[j]))
                              => FLe(calling.results[i], calling.results[j])
                       /\ (~Identical(calling.args[i]) /\ Contained(calling.args[i]))
                              => FEq(calling.results[i], <<8, 10>>)
                       /\ FLe(<<6, 10>>, calling.results[i])
                       /\ FLe(calling.results[j], <<1, 1>>)
           /\ \A i \in {1, 2} :
                (/\ ~SharesHalf(calling.args[i])
                 /\ ~Identical(calling.args[i])
                 /\ ~Contained(calling.args[i]))
                    => FEq(calling.results[i], <<0, 1>>)

\* C16 witness: "food" in "food safety" (half the words, contained) got 0.8 and
\* "safety food rules" against "food safety" (two thirds, not contained) got less.
C16_Witness ==
    /\ BothMatched
    /\ calling.args = <<<<InputStr.food, HelperStr.food_safety>>,
                        <<InputStr.safety_food_rules, HelperStr.food_safety>>>>
    /\ FEq(calling.results[1], <<8, 10>>)
    /\ FLe(calling.results[2], <<8, 10>>) /\ ~FEq(calling.results[2], <<8, 10>>)

\* _fuzzy_match has returned for the first pair of texts
Matched == calling.function = "_fuzzy_match" /\ Len(calling.results) >= 1

NormalizedTwice == calling.function = "_normalize_list" /\ Len(calling.results) = 2

\* C17: the normalizer is idempotent: normalizing what it returned for a list or a
\* string returns the same set.
C17_NormalizeIdempotent ==
    NormalizedTwice => calling.results[2] = calling.results[1]

\* C17 witness: a skill padded with two blanks on each side and capitalised was
\* normalized, and the set returned was normalized again.
C17_Witness ==
    /\ NormalizedTwice
    /\ calling.args[1] = [list |-> <<InputStr.wide_Cooking>>]
    /\ calling.results[2] = {HelperStr.cooking}

\* update_job_match_score has been called on the job and once more on the result
UpdatedTwice == calling.function = "update_job_match_score" /\ Len(calling.results) = 2

stated_skill_score ==
    LET required == tokens(Range(calling.args.job.required_skills))
        held == tokens(Range(calling.args.profile.skills))
        unmatched == required \ held
        credit == [skill \in unmatched |->
                      FMul(<<7, 10>>, FMaxOf({_fuzzy_match(h, skill) : h \in held}))]
    IN  FMul(FAdd(<<Cardinality(required \cap held), 1>>, FSum(credit, unmatched)),
             <<1, Cardinality(required)>>)

\* calculate_match_score has been called with a profile and a job that requires skills
ScoredRequiredSkills ==
    /\ Calculated
    /\ calling.args.profile # None
    /\ tokens(Range(calling.args.job.required_skills)) # {}

\* C19: when the job's normalized required skills are not empty, the skills
\* sub-score is (exact matches + the sum over the unmatched required skills of 0.7
\* times the best _fuzzy_match against any profile skill) over the number of required
\* skills, the dimension adds the sub-score times 3.0, and the sub-score is in [0, 1].
C19_SkillsSubScore ==
    ScoredRequiredSkills
        => /\ added("skills") # {}
           /\ \A a \in added("skills") :
                 /\ FEq(a.total, FMul(stated_skill_score, <<3, 1>>))
                 /\ FEq(a.max, <<3, 1>>)
           /\ FLe(<<0, 1>>, stated_skill_score)
           /\ FLe(stated_skill_score, <<1, 1>>)

\* C19 witness: the profile's only skill is "cook" and the job requires cooking and
\* food safety: no exact match, "cook" is contained in "cooking" (0.8), the
\* sub-score is 0.7 * 0.8 / 2 = 0.28.
C19_Witness ==
    /\ ScoredRequiredSkills
    /\ calling.args.profile.skills = <<InputStr.cook>>
    /\ tokens(Range(calling.args.job.required_skills))
          = {HelperStr.cooking, HelperStr.food_safety}
    /\ FEq(stated_skill_score, <<28, 100>>)
    /\ \E a \in added("skills") : FEq(a.total, <<84, 100>>)

\* ------------------------------------------------------------------ claims on the keyword and role dimensions

\* calculate_match_score has returned a score for a profile
Returned ==
    /\ Calculated
    /\ calling.args.profile # None
    /\ returned.returned.raised = "none"

\* the combined profile text of the call: summary, transcript summary and experience,
\* each followed by a blank, absent fields skipped
combined_text ==
    LET p == calling.args.profile
        field(t) == IF t = <<>> THEN <<>> ELSE t \o <<" ">>
    IN  field(p.summary) \o field(p.transcript_summary) \o field(p.experience)

\* C21: the keyword dimension always adds 1.5 to max_possible; it adds 0 to the
\* total when the combined profile text or the job description is empty; when both
\* are non-empty it adds 1.5 times the share of the job keywords that are also
\* profile keywords, or a flat 0.2 when the job has no keywords.
C21_KeywordDimension ==
    Returned
        => /\ added("keywords") # {}
           /\ \A a \in added("keywords") :
                 LET job_keywords == _extract_keywords(calling.args.job.description)
                     profile_keywords == _extract_keywords(combined_text)
                 IN  /\ FEq(a.max, <<15, 10>>)
                     /\ IF combined_text = <<>> \/ calling.args.job.description = <<>>
                        THEN FEq(a.total, <<0, 1>>)
                        ELSE IF job_keywords = {} THEN FEq(a.total, <<2, 10>>)
                        ELSE FEq(a.total,
                                 <<15 * Cardinality(job_keywords \cap profile_keywords),
                                   10 * Cardinality(job_keywords)>>)

\* C21 witness: a job described as "cook daily menu" was scored for a profile whose
\* summary and experience hold two of the three keywords: the dimension added 1.0.
C21_Witness ==
    /\ Returned
    /\ calling.args.job.description = InputStr.d_A
    /\ _extract_keywords(combined_text) \cap _extract_keywords(InputStr.d_A)
          = {InputStr.cook, <<"d", "a", "i", "l", "y">>}
    /\ \E a \in added("keywords") : FEq(a.total, <<1, 1>>)

\* what C22 states the role dimension adds to the total for a role and a headline
stated_role_credit(role, headline) ==
    LET shared == Cardinality(words_of(role) \cap words_of(headline))
    IN  IF str_in(str_strip(str_lower(role)), str_strip(str_lower(headline)))
        THEN <<2, 10>>
        ELSE IF shared > 0 THEN <<15 * shared, 100 * Cardinality(words_of(role))>>
        ELSE <<0, 1>>

\* C22 as stated: the role dimension always adds 0.2 to max_possible; it adds 0.2 to
\* the total when the normalized role is a substring of the normalized headline,
\* else 0.15 times the share of the role's words found in the headline when they
\* share a word, else 0; it never adds more than 0.2.
C22_RoleDimension ==
    Returned
        => /\ added("role") # {}
           /\ \A a \in added("role") :
                 /\ FEq(a.max, <<2, 10>>)
                 /\ FEq(a.total, stated_role_credit(calling.args.job.role,
                                                    calling.args.profile.headline))
                 /\ FLe(a.total, <<2, 10>>)

\* C22 amended: the role dimension always adds 0.2 to max_possible; it adds to the
\* total only when the job role and the profile headline are both non-empty: then 0.2
\* when the normalized role is a substring of the normalized headline, else 0.15
\* times the share of the role's words found in the headline when they share a word,
\* else 0.  A job without a role adds 0, though the empty role is a substring of
\* every headline.  The dimension never adds more than 0.2.
C22_RoleDimensionWhenBothPresent ==
    Returned
        => /\ added("role") # {}
           /\ \A a \in added("role") :
                 /\ FEq(a.max, <<2, 10>>)
                 /\ IF calling.args.job.role # <<>> /\ calling.args.profile.headline # <<>>
                    THEN FEq(a.total, stated_role_credit(calling.args.job.role,
                                                         calling.args.profile.headline))
                    ELSE FEq(a.total, <<0, 1>>)
                 /\ FLe(a.total, <<2, 10>>)

\* C22 witness: the role "Head Cook" was scored against the headline "Line cook":
\* one of the role's two words is shared and the dimension added 0.075.
C22_Witness ==
    /\ Returned
    /\ calling.args.job.role = InputStr.Head_Cook
    /\ calling.args.profile.headline = InputStr.Line_cook
    /\ \E a \in added("role") : FEq(a.total, <<75, 1000>>)

\* ------------------------------------------------------------------ claims on the atomicity of a refresh

\* C23: a refresh that fails before its commit (a payload without a required field,
\* a posted_at that cannot be parsed, a commit the database refuses) persists none
\* of its upserts and deletes: the jobs and the applications stored are those stored
\* before the request.
C23_Step ==
    (syncLog'.op \in SyncOps /\ syncLog'.refreshed /\ syncLog'.raised # "none")
        => /\ jobs' = jobs
           /\ applications' = applications

C23_FailedRefreshPersistsNothing == [][C23_Step]_vars

\* C23 witness: a refresh upserted the first job of the listing and raised KeyError
\* on the second, which has no title; the first job is not in the table.
C23_Witness ==
    /\ syncLog.op \in SyncOps
    /\ syncLog.refreshed
    /\ syncLog.raised = "KeyError"
    /\ api_jobs = <<pay_B, pay_NoTitle>>
    /\ \A j \in jobs : j.external_id # ToString(pay_B.id)

\* ------------------------------------------------------------------ claims on the scores a viewer sees

\* C24: the match score a viewer's job pages are ordered by and shown with is the
\* score of that viewer's own profile, whatever requests of other users run at the
\* same time.
C24_ViewerSeesOwnScore ==
    \A u \in Viewers :
        viewing[u].pc = "done"
            => \A i \in DOMAIN viewing[u].shown :
                  viewing[u].shown[i].match_score =
                      helpers_calculate_match_score(profile_of(u), viewing[u].shown[i])

\* ------------------------------------------------------------------ claims on connections and chat

\* the two users of a request, and those of a connection
request_pair(r) == {r.sender_id, r.receiver_id}

connection_pair(c) == {c.user_one_id, c.user_two_id}

\* C26: after any sequence of completed send_request, accept_request,
\* decline_request and remove_connection requests every stored connection request
\* is pending, there is at most one stored request per unordered pair of users, and
\* no stored request is between two connected users.
C26_RequestsPendingAndUnique ==
    /\ \A r \in network.requests : r.status = "pending"
    /\ \A r1, r2 \in network.requests : request_pair(r1) = request_pair(r2) => r1 = r2
    /\ \A r \in network.requests, c \in network.connections :
          request_pair(r) # connection_pair(c)

\* C26 witness: users 1 and 2 are connected, a request between other users is
\* pending, and the last request was a send_request that was carried out.
C26_Witness ==
    /\ network.last = [op |-> "send_request", outcome |-> "done"]
    /\ \E c \in network.connections : connection_pair(c) = {1, 2}
    /\ \E r \in network.requests : request_pair(r) # {1, 2}

\* C27: after any sequence of connection operations there is at most one connection
\* per unordered pair of users, no user is connected to themselves, and every
\* connection has user_one_id smaller than user_two_id; accepting a request, directly
\* or by a reciprocal send_request, never leaves a second connection for a pair.
C27_ConnectionsOrderedAndUnique ==
    /\ \A c1, c2 \in network.connections :
          connection_pair(c1) = connection_pair(c2) => c1 = c2
    /\ \A c \in network.connections : c.user_one_id < c.user_two_id

\* C27 witness: a request was accepted and the two users are connected, the
\* connection being the only one and no request left.
C27_Witness ==
    /\ network.last = [op |-> "accept_request", outcome |-> "done"]
    /\ network.connections = {[user_one_id |-> 2, user_two_id |-> 3]}
    /\ network.requests = {}

\* C28: a chat message is stored only when its sender and its receiver are connected
\* at the moment of sending, through the chat form and through the socket handler;
\* a send between users who are not connected stores nothing.
C28_Step ==
    /\ \A m \in network'.messages \ network.messages :
          /\ network'.last.op \in {"chat_home", "send_message"}
          /\ \E c \in network.connections :
                connection_pair(c) = {m.sender_id, m.receiver_id}
          /\ m.sender_id # m.receiver_id
    /\ (network'.last.op \in {"chat_home", "send_message"}
        /\ network'.last.outcome # "done")
          => network'.messages = network.messages

C28_MessagesOnlyBetweenConnected == [][C28_Step]_vars

\* C28 witness: the socket handler stored a message from user 3 to user 1, who are
\* connected.
C28_Witness ==
    /\ network.last = [op |-> "send_message", outcome |-> "done"]
    /\ network.messages = {[sender_id |-> 3, receiver_id |-> 1]}
    /\ \E c \in network.connections : connection_pair(c) = {1, 3}

\* ------------------------------------------------------------------ claims on applications

\* C29: a user has at most one application per job after any sequence of apply and
\* withdraw requests: apply creates an application only when the user's profile is
\* complete and the user has no application for that job yet, a withdrawn one
\* included; withdraw_application sets the status to withdrawn only for the
\* caller's own application in status submitted or pending, and changes nothing
\* otherwise.
C29_Step ==
    /\ \A a1, a2 \in applications' :
          (a1.user_id = a2.user_id /\ a1.job_id = a2.job_id) => a1 = a2
    /\ \A a \in applications' :
          a.id \notin {b.id : b \in applications}
              => /\ syncLog'.op = "apply"
                 /\ a.user_id = syncLog'.user
                 /\ a.job_id = syncLog'.job_id
                 /\ a.status = "submitted"
                 /\ profile_of(a.user_id) # None
                 /\ profile_of(a.user_id).resume_link # ""
                 /\ profile_of(a.user_id).experience # <<>>
                 /\ profile_of(a.user_id).skills # <<>>
                 /\ profile_of(a.user_id).certifications # <<>>
                 /\ ~\E b \in applications : b.user_id = a.user_id /\ b.job_id = a.job_id
                 /\ applications' = applications \cup {a}
    /\ \A b \in applications :
          b \notin applications'
              => /\ syncLog'.op = "withdraw"
                 /\ syncLog'.job_id = b.id
                 /\ b.user_id = syncLog'.user
                 /\ b.status \in {"submitted", "pending"}
                 /\ applications' =
                       (applications \ {b}) \cup {[b EXCEPT !.status = "withdrawn"]}
    /\ syncLog'.raised = "refused" => applications' = applications

Numeric(value) ==
    \/ value.json \in {"int", "bool", "float"}
    \/ /\ value.json = "str"
       /\ \E lead \in 0..Len(value.s), sign \in 0..1, trail \in 0..Len(value.s) :
             /\ lead + sign + trail < Len(value.s)
             /\ \A i \in 1..lead : value.s[i] \in Whitespace
             /\ sign = 1 => value.s[lead + 1] \in {"+", "-"}
             /\ \A i \in (lead + sign + 1)..(Len(value.s) - trail) :
                   value.s[i] \in {"0", "1", "2", "3", "4", "5", "6", "7", "8", "9"}
             /\ \A i \in (Len(value.s) - trail + 1)..Len(value.s) : value.s[i] \in Whitespace

\* the three required fields are in the body
AllPresent(data) ==
    data.kind = "object" /\ {"job_id", "user_id", "resume_link"} \subseteq DOMAIN data.fields

\* C30: POST /applications persists an application only when job_id, user_id and
\* resume_link are all present, job_id and user_id are numeric and the job exists;
\* a missing field or a non-numeric id is answered 400, an unknown job 404, and in
\* every rejected case nothing is stored, so every stored application refers to an
\* existing job.
C30_Step ==
    LET data == employer'.last.data
        status == employer'.last.status
    IN  /\ \A a \in employer'.applications : a.job_id \in employer'.jobs
        /\ employer'.last.op = "create_application" =>
              /\ employer'.jobs = employer.jobs
              /\ employer'.applications # employer.applications <=> status = 201
              /\ status = 201 =>
                    /\ AllPresent(data)
                    /\ Numeric(data.fields.job_id)
                    /\ Numeric(data.fields.user_id)
                    /\ \E a \in employer'.applications \ employer.applications :
                          /\ employer'.applications = employer.applications \cup {a}
                          /\ a.job_id \in employer.jobs
              /\ (data.kind = "object" /\ ~AllPresent(data)) => status = 400
              /\ (AllPresent(data) /\ data.fields.job_id.json \in {"null", "array"}) =>
                    status = 400
              /\ (AllPresent(data) /\ data.fields.job_id.json = "str"
                     /\ ~Numeric(data.fields.job_id)) => status = 400
              /\ (AllPresent(data) /\ data.fields.job_id.json = "int"
                     /\ data.fields.job_id.n \notin employer.jobs) => status = 404
              /\ (AllPresent(data) /\ data.fields.job_id.json = "int"
                     /\ data.fields.job_id.n \in employer.jobs
                     /\ data.fields.user_id.json # "Infinity"
                     /\ ~Numeric(data.fields.user_id)) => status = 400

skills_added(i) ==
    LET a == CHOOSE c \in Range(calling.results[i].added) : c.dimension = "skills"
    IN  a.total

\* the score was computed for a profile and for the profile with one more skill
ScoredWithOneMoreSkill == calling.function = "one_more_skill" /\ Len(calling.results) = 2

\* C25: the score is monotone in the profile's skills: for any profile and job,
\* adding one more skill to the profile, all else unchanged, lowers neither the
\* skills sub-score nor the final score.
C25_MonotoneInSkills ==
    ScoredWithOneMoreSkill =>
        /\ FLe(skills_added(1), skills_added(2))
        /\ calling.results[1].returned.raised = calling.results[2].returned.raised
        /\ calling.results[1].returned.value <= calling.results[2].returned.value

\* C25 witness: one more skill raised the skills sub-score and the final score.
C25_Witness ==
    /\ ScoredWithOneMoreSkill
    /\ ~FLe(skills_added(2), skills_added(1))
    /\ calling.results[1].returned.raised = "none"
    /\ calling.results[1].returned.value < calling.results[2].returned.value

=============================================================================
